---- MODULE Spec2Model ----
(***************************************************************************)
(* Credential acquisition and caching of azure-aitoolsconnect:            *)
(*   - auth/token_cache.rs : CachedTokenEntry, TokenCacheFile (disk layer) *)
(*   - auth/mod.rs         : CachedToken, TokenCache (in-memory layer),    *)
(*                           EntraTokenAuth, CognitiveTokenAuth            *)
(*   - main.rs             : run_login                                     *)
(*   - auth/device_code.rs : DeviceCodeAuth::poll_for_token                *)
(*   - auth/interactive.rs : InteractiveAuth::fetch_token,                 *)
(*                           wait_for_callback, exchange_code              *)
(*   - auth/managed_identity.rs : ManagedIdentityAuth                      *)
(*   - auth/mod.rs         : AuthManager, Credentials::apply_to_request    *)
(* Time is counted in whole seconds.                                       *)
(***************************************************************************)
EXTENDS Integers, Sequences, FiniteSets, TLC

VARIABLES
    now,        \* wall clock / monotonic clock, seconds
    home,       \* whether $HOME is set (cache_dir() is Some)
    file,       \* ~/.cache/azure-aitoolsconnect/tokens.json: NoFile or its tokens
    tokens,     \* a TokenCacheFile value held by a caller of the library
    ev,         \* the last operation and what it returned
    run,        \* the running command of the CLI process and where it stands
    slot,       \* TokenCache.cached of the provider of the running process
    dc,         \* DeviceCodeAuth::poll_for_token: locals and position
    ia,         \* InteractiveAuth::fetch_token: locals and position
    env,        \* the process environment read by detect_endpoint
    mi,         \* a ManagedIdentityAuth and its fetch_token in progress
    am,         \* an AuthManager and what its accessors returned
    rq,         \* a reqwest::RequestBuilder handed to apply_to_request
    mode,       \* the permission bits of the cache file
    lg          \* `login --save` invocations running side by side

vars == <<now, home, file, tokens, ev, run, slot, dc, ia, env, mi, am, rq, mode, lg>>

\* ------------------------------------------------------------------ bounds

\* The clock runs over 0..MaxNow.
MaxNow == 1

\* ------------------------------------------------------- program constants

\* token_cache.rs: chrono::Duration::seconds(60) in CachedTokenEntry::is_valid
ENTRY_BUFFER_SECS == 60

\* auth/mod.rs: const TOKEN_EXPIRY_BUFFER_SECS
TOKEN_EXPIRY_BUFFER_SECS == 60

\* auth/mod.rs: const COGNITIVE_TOKEN_LIFETIME_SECS
COGNITIVE_TOKEN_LIFETIME_SECS == 540

\* Option::None of a string, of a struct, and the missing file
None == "none"
Nothing == [none |-> TRUE]
NoFile == "absent"
\* a tokens.json that serde_json cannot parse as a TokenCacheFile
Unparsable == "unparsable"
IsDoc(disk) == disk # NoFile /\ disk # Unparsable

\* config/mod.rs: Cloud::cognitive_scope
cognitive_scope(cloud) ==
    IF cloud = "Global" THEN "https://cognitiveservices.azure.com/.default"
    ELSE "https://cognitiveservices.azure.cn/.default"

Clouds == {"Global", "China"}

\* ------------------------------------------- token_cache.rs: the disk layer

\* CachedTokenEntry::is_valid, evaluated when Utc::now() is `clock`
is_valid_at_expiry(t, clock) == clock + ENTRY_BUFFER_SECS <= t.expires_at

is_valid(t, clock) == clock + ENTRY_BUFFER_SECS < t.expires_at

\* CachedTokenEntry::remaining_minutes: num_minutes() truncates toward zero
remaining_minutes(t, clock) ==
    LET remaining == t.expires_at - clock
    IN IF remaining >= 0 THEN remaining \div 60 ELSE -((-remaining) \div 60)

same_key(t, u) == t.scope = u.scope /\ t.tenant_id = u.tenant_id

\* TokenCacheFile::load: Ok(Self::default()) without a cache directory or a
\* file, Err for a file that does not parse, else Ok of the file's tokens with
\* the entries that are not valid dropped
load_ok(disk, homeSet) == ~(homeSet /\ disk = Unparsable)

load_keeps_expired(disk, homeSet, clock) ==
    IF ~homeSet \/ disk = NoFile \/ disk = Unparsable THEN <<>> ELSE disk

load(disk, homeSet, clock) ==
    IF ~homeSet THEN <<>>
    ELSE IF disk = NoFile THEN <<>>
    ELSE IF disk = Unparsable THEN <<>>
    ELSE SelectSeq(disk, LAMBDA t : is_valid(t, clock))

\* TokenCacheFile::get_valid_token: the first entry of that key that is valid
get_valid_token(toks, scope, tenant_id, clock) ==
    LET hits == SelectSeq(toks, LAMBDA t :
                    t.scope = scope /\ t.tenant_id = tenant_id /\ is_valid(t, clock))
    IN IF hits = <<>> THEN Nothing ELSE Head(hits)

\* TokenCacheFile::insert: retain the entries of the other keys, then push
insert_appends(toks, entry) == Append(toks, entry)

insert_retains_same_key(toks, entry) ==
    Append(SelectSeq(toks, LAMBDA t :
               t.scope = entry.scope /\ t.tenant_id = entry.tenant_id), entry)

insert(toks, entry) ==
    Append(SelectSeq(toks, LAMBDA t :
               ~(t.scope = entry.scope /\ t.tenant_id = entry.tenant_id)), entry)

\* TokenCacheFile::save: Err without a cache directory, else the whole
\* document replaces the file
save_ok(homeSet) == homeSet

\* a save that adds its document to the one on disk
save_appends(toks, disk, homeSet) ==
    IF homeSet THEN (IF IsDoc(disk) THEN disk \o toks ELSE toks) ELSE disk

save(toks, disk, homeSet) == IF homeSet THEN toks ELSE disk

\* TokenCacheFile::clear: removes the file if there is one
clear(disk, homeSet) == IF homeSet /\ disk # NoFile THEN NoFile ELSE disk

\* the permission bits of the file: none without a file, 0o600 once
\* set_permissions ran, 0o666 masked by the umask when fs::write created it
NoMode == "no file"
OwnerOnly == "0600"
Umasks == {"022", "077"}
created_mode(umask) == IF umask = "077" THEN "0600" ELSE "0644"

\* save: fs::write keeps the bits of a file that exists and creates a missing
\* one with the umask's bits
write_mode(m, disk, umask) == IF disk = NoFile THEN created_mode(umask) ELSE m

\* save as a whole: after fs::write, set_permissions(path, 0o600)
save_mode(m, homeSet) == IF homeSet THEN OwnerOnly ELSE m

\* clear as a whole
clear_mode(m, disk, homeSet) == IF homeSet /\ disk # NoFile THEN NoMode ELSE m

\* --------------------------------------- library callers of TokenCacheFile

AccessTokens == {"old-token", "new-token"}

Tenants == {"tenant1", "tenant2"}

\* the (scope, tenant_id) keys a library caller uses
CallerKeys == { [scope |-> cognitive_scope("Global"), tenant_id |-> t] : t \in Tenants }

\* expiry instants around the validity boundary of the clock's range
ExpiryTimes == { ENTRY_BUFFER_SECS + 1, ENTRY_BUFFER_SECS + 1 + MaxNow }

CallerEntries ==
    { [access_token |-> a, expires_at |-> e, scope |-> k.scope, tenant_id |-> k.tenant_id] :
        a \in AccessTokens, e \in ExpiryTimes, k \in CallerKeys }

Idle == [cmd |-> "none"]
DcIdle == [pc |-> "idle"]
IaIdle == [pc |-> "idle"]
\* std::env::var(name) is Err(VarError::NotPresent)
NotPresent == "not_present"
EnvNames == {"IDENTITY_ENDPOINT", "IDENTITY_HEADER", "MSI_ENDPOINT"}
NoEnv == [n \in EnvNames |-> NotPresent]
MiNone == [pc |-> "none"]
AmNone == [pc |-> "none"]
RqNone == [pc |-> "none"]
Invocations == {1, 2}
LgIdle == [pc |-> "idle"]
LgNone == [procs |-> [p \in Invocations |-> LgIdle], base |-> NoFile, last |-> 0]

Init ==
    /\ now = 0
    /\ home \in BOOLEAN
    /\ file \in {NoFile, Unparsable}
    /\ tokens = <<>>
    /\ ev = [op |-> "init"]
    /\ run = Idle
    /\ slot = Nothing
    /\ dc = DcIdle
    /\ ia = IaIdle
    /\ env = NoEnv
    /\ mi = MiNone
    /\ am = AmNone
    /\ rq = RqNone
    /\ mode = IF file = NoFile THEN NoMode ELSE OwnerOnly
    /\ lg = LgNone

\* time passes
Tick ==
    /\ now < MaxNow
    /\ now' = now + 1
    /\ ev' = [op |-> "tick"]
    /\ UNCHANGED <<home, file, tokens, run, slot, dc, ia, env, mi, am, rq, mode, lg>>

\* let cache = TokenCacheFile::load()?
CacheLoad ==
    /\ tokens' = IF load_ok(file, home) THEN load(file, home, now) ELSE tokens
    /\ ev' = [op |-> "load", ok |-> load_ok(file, home),
              had_file |-> (home /\ file # NoFile)]
    /\ UNCHANGED <<now, home, file, run, slot, dc, ia, env, mi, am, rq, mode, lg>>

\* cache.insert(entry)
CacheInsert(entry) ==
    /\ tokens' = insert(tokens, entry)
    /\ ev' = [op |-> "insert", entry |-> entry,
              old |-> LET olds == SelectSeq(tokens, LAMBDA t : same_key(t, entry))
                      IN IF olds = <<>> THEN Nothing ELSE Head(olds)]
    /\ UNCHANGED <<now, home, file, run, slot, dc, ia, env, mi, am, rq, mode, lg>>

\* cache.save()
CacheSave ==
    /\ file' = save(tokens, file, home)
    /\ mode' = save_mode(mode, home)
    /\ ev' = [op |-> "save", ok |-> save_ok(home)]
    /\ UNCHANGED <<now, home, tokens, run, slot, dc, ia, env, mi, am, rq, lg>>

\* TokenCacheFile::clear()
CacheClear ==
    /\ file' = clear(file, home)
    /\ mode' = clear_mode(mode, file, home)
    /\ ev' = [op |-> "clear"]
    /\ UNCHANGED <<now, home, tokens, run, slot, dc, ia, env, mi, am, rq, lg>>

\* cache.get_valid_token(scope, tenant_id)
CacheLookup(k) ==
    /\ ev' = [op |-> "get_valid_token", key |-> k,
              result |-> get_valid_token(tokens, k.scope, k.tenant_id, now)]
    /\ UNCHANGED <<now, home, file, tokens, run, slot, dc, ia, env, mi, am, rq, mode, lg>>

NextCacheFile ==
    \/ Tick
    \/ CacheLoad
    \/ \E e \in CallerEntries : CacheInsert(e)
    \/ CacheSave
    \/ CacheClear
    \/ \E k \in CallerKeys : CacheLookup(k)

SpecCacheFile == Init /\ [][NextCacheFile]_vars

\* ----------------------------------------- claims on the TokenCacheFile API

\* no two entries of a collection have the same (scope, tenant_id)
UniqueKeys(toks) ==
    \A i, j \in 1..Len(toks) : same_key(toks[i], toks[j]) => i = j


C4_LoadPrunes ==
    ev.op = "load" =>
        /\ ~ev.had_file => (ev.ok /\ tokens = <<>>)
        /\ (ev.ok /\ ev.had_file) =>
              /\ \A i \in 1..Len(tokens) : now + 60 < tokens[i].expires_at
              /\ \A i \in 1..Len(file) :
                    (now + 60 < file[i].expires_at) =>
                        \E j \in 1..Len(tokens) : tokens[j] = file[i]
              /\ \A j \in 1..Len(tokens) : \E i \in 1..Len(file) : file[i] = tokens[j]
              /\ (\A i \in 1..Len(file) : ~(now + 60 < file[i].expires_at)) =>
                    \A k \in CallerKeys :
                        get_valid_token(tokens, k.scope, k.tenant_id, now) = Nothing

\* a file that holds entries, all of them expired, has just been loaded
C4_Witness ==
    /\ ev.op = "load" /\ ev.ok /\ ev.had_file
    /\ Len(file) > 0
    /\ \A i \in 1..Len(file) : ~(now + 60 < file[i].expires_at)


\* ------------------------------------------ auth/mod.rs: the in-memory layer

\* CachedToken::is_expired, evaluated when Instant::now() is `clock`
\* an expiry test that leaves the buffer out
is_expired_no_buffer(cached, buffer_secs, clock) == clock >= cached.expires_at

is_expired(cached, buffer_secs, clock) == clock + buffer_secs >= cached.expires_at

\* TokenCache::get: a copy of the token if the slot holds one that is not expired
TokenCache_get(cached, buffer_secs, clock) ==
    IF cached # Nothing /\ ~is_expired(cached, buffer_secs, clock)
    THEN cached.token ELSE None

\* a set that keeps the expiry of the token it replaces
TokenCache_set_keeps_expiry(token, expires_in_secs, clock) ==
    [token |-> token,
     expires_at |-> IF slot = Nothing THEN clock + expires_in_secs ELSE slot.expires_at]

\* TokenCache::set: the slot's new value
TokenCache_set(token, expires_in_secs, clock) ==
    [token |-> token, expires_at |-> clock + expires_in_secs]

\* expires_in values a token endpoint answers with, around the buffer
ExpiresIns == TOKEN_EXPIRY_BUFFER_SECS .. (TOKEN_EXPIRY_BUFFER_SECS + 1 + MaxNow)

\* ------------------------------------------------------ main.rs: run_login

LoginArgs ==
    [ tenant : {None, "tenant1"}, auth : {"DeviceCode", "ManagedIdentity"},
      cloud : Clouds, save : BOOLEAN, clear_cache : BOOLEAN ]

\* a login that saves whether --save was given or not
save_requested_always(args) == TRUE

\* if args.save { .. } after authenticate() returned Ok
save_requested(args) == args.save

\* run_login up to the call of DeviceCodeAuth::authenticate
LoginStart(args) ==
    /\ run = Idle
    /\ UNCHANGED <<now, home, tokens, slot, dc, ia, env, mi, am, rq, lg>>
    /\ mode' = IF args.clear_cache THEN clear_mode(mode, file, home) ELSE mode
    /\ IF args.clear_cache
       THEN /\ file' = clear(file, home)
            /\ ev' = [op |-> "login", outcome |-> "cleared"]
            /\ run' = Idle
       ELSE /\ file' = file
            /\ IF args.auth = "ManagedIdentity"
               THEN /\ ev' = [op |-> "login", outcome |-> "managed_identity"]
                    /\ run' = Idle
               ELSE IF args.tenant = None
               THEN /\ ev' = [op |-> "login", outcome |-> "missing_tenant"]
                    /\ run' = Idle
               ELSE LET scope == cognitive_scope(args.cloud)
                        cache == load(file, home, now)
                        entry == IF load_ok(file, home)
                                 THEN get_valid_token(cache, scope, args.tenant, now)
                                 ELSE Nothing
                    IN IF entry # Nothing
                       THEN /\ ev' = [op |-> "login", outcome |-> "cached",
                                      scope |-> scope, tenant_id |-> args.tenant,
                                      token |-> entry.access_token,
                                      minutes |-> remaining_minutes(entry, now)]
                            /\ run' = Idle
                       ELSE /\ ev' = [op |-> "login", outcome |-> "authenticating",
                                      scope |-> scope, tenant_id |-> args.tenant]
                            /\ run' = [cmd |-> "login", tenant |-> args.tenant,
                                       cloud |-> args.cloud,
                                       save |-> save_requested(args),
                                       args |-> args]

\* auth.authenticate().await? returned Err: run_login returns it
LoginAuthFailedClears ==
    /\ run.cmd = "login"
    /\ ev' = [op |-> "login", outcome |-> "auth_failed"]
    /\ run' = Idle
    /\ file' = clear(file, home)
    /\ mode' = clear_mode(mode, file, home)
    /\ UNCHANGED <<now, home, tokens, slot, dc, ia, env, mi, am, rq, lg>>

LoginAuthFailed ==
    /\ run.cmd = "login"
    /\ ev' = [op |-> "login", outcome |-> "auth_failed"]
    /\ run' = Idle
    /\ UNCHANGED <<now, home, file, tokens, slot, dc, ia, env, mi, am, rq, mode, lg>>

\* auth.authenticate().await? returned Ok(TokenResult): save if asked, output
LoginAuthSucceeded(access_token, expires_in_secs) ==
    /\ run.cmd = "login"
    /\ run' = Idle
    /\ UNCHANGED <<now, home, tokens, slot, dc, ia, env, mi, am, rq, lg>>
    /\ mode' = IF run.save THEN save_mode(mode, home) ELSE mode
    /\ IF run.save
       THEN LET cache == IF load_ok(file, home) THEN load(file, home, now) ELSE <<>>
                entry == [access_token |-> access_token,
                          expires_at |-> now + expires_in_secs,
                          scope |-> cognitive_scope(run.cloud),
                          tenant_id |-> run.tenant]
            IN /\ file' = save(insert(cache, entry), file, home)
               /\ ev' = [op |-> "login",
                         outcome |-> IF save_ok(home) THEN "saved" ELSE "save_failed",
                         token |-> access_token, entry |-> entry]
       ELSE /\ file' = file
            /\ ev' = [op |-> "login", outcome |-> "token", token |-> access_token]

\* -------------------- auth/mod.rs: EntraTokenAuth and CognitiveTokenAuth

\* the process constructs its provider: TokenCache::new(TOKEN_EXPIRY_BUFFER_SECS)
ProviderNew(kind) ==
    /\ run = Idle
    /\ run' = [cmd |-> kind, pc |-> "ready"]
    /\ slot' = Nothing
    /\ ev' = [op |-> "new", kind |-> kind]
    /\ UNCHANGED <<now, home, file, tokens, dc, ia, env, mi, am, rq, mode, lg>>

\* get_credentials / exchange_token up to the request: the cache check
ProviderGet ==
    /\ run.cmd \in {"entra", "cognitive"}
    /\ run.pc = "ready"
    /\ LET token == TokenCache_get(slot, TOKEN_EXPIRY_BUFFER_SECS, now)
       IN IF token # None
          THEN /\ ev' = [op |-> "get_credentials", outcome |-> "cached", token |-> token]
               /\ run' = run
          ELSE /\ ev' = [op |-> "get_credentials", outcome |-> "fetching"]
               /\ run' = [run EXCEPT !.pc = "fetching"]
    /\ UNCHANGED <<now, home, file, tokens, slot, dc, ia, env, mi, am, rq, mode, lg>>

\* fetch_token / exchange_token: the AppError of a failed send(), of a
\* non-success status and of a body that does not parse
FetchFailures == {"transport_error", "status_error", "parse_error"}

fetch_token_error(cause) == "Auth"

\* the request failed (transport, status or body): the error is returned
ProviderFetchFailed(cause) ==
    /\ run.cmd \in {"entra", "cognitive"}
    /\ run.pc = "fetching"
    /\ run' = [run EXCEPT !.pc = "ready"]
    /\ ev' = [op |-> "get_credentials", outcome |-> "failed",
              provider |-> run.cmd, cause |-> cause, kind |-> fetch_token_error(cause)]
    /\ UNCHANGED <<now, home, file, tokens, slot, dc, ia, env, mi, am, rq, mode, lg>>

\* EntraTokenAuth: fetch_token returned (token, expires_in); the slot is set
EntraFetched(token, expires_in) ==
    /\ run.cmd = "entra"
    /\ run.pc = "fetching"
    /\ run' = [run EXCEPT !.pc = "ready"]
    /\ slot' = TokenCache_set(token, expires_in, now)
    /\ ev' = [op |-> "get_credentials", outcome |-> "fetched", token |-> token,
              expires_in |-> expires_in]
    /\ UNCHANGED <<now, home, file, tokens, dc, ia, env, mi, am, rq, mode, lg>>

\* CognitiveTokenAuth: the exchange answered a token; the slot is set
CognitiveFetched(token) ==
    /\ run.cmd = "cognitive"
    /\ run.pc = "fetching"
    /\ run' = [run EXCEPT !.pc = "ready"]
    /\ slot' = TokenCache_set(token, COGNITIVE_TOKEN_LIFETIME_SECS, now)
    /\ ev' = [op |-> "get_credentials", outcome |-> "fetched", token |-> token,
              expires_in |-> COGNITIVE_TOKEN_LIFETIME_SECS]
    /\ UNCHANGED <<now, home, file, tokens, dc, ia, env, mi, am, rq, mode, lg>>

\* the process ends and its memory with it
ProcessExit ==
    /\ run.cmd \in {"entra", "cognitive"}
    /\ run.pc = "ready"
    /\ run' = Idle
    /\ slot' = Nothing
    /\ ev' = [op |-> "exit"]
    /\ UNCHANGED <<now, home, file, tokens, dc, ia, env, mi, am, rq, mode, lg>>

Next ==
    \/ Tick
    \/ \E args \in LoginArgs : LoginStart(args)
    \/ LoginAuthFailed
    \/ \E a \in AccessTokens, e \in ExpiresIns : LoginAuthSucceeded(a, e)
    \/ \E kind \in {"entra", "cognitive"} : ProviderNew(kind)
    \/ ProviderGet
    \/ \E c \in FetchFailures : ProviderFetchFailed(c)
    \/ \E a \in AccessTokens, e \in ExpiresIns : EntraFetched(a, e)
    \/ \E a \in AccessTokens : CognitiveFetched(a)
    \/ ProcessExit

Spec == Init /\ [][Next]_vars

\* ---------------------------- auth/device_code.rs: DeviceCodeAuth::fetch_token

\* the interval and the expires_in of a device authorization run over
\* 1..MaxInterval and 1..MaxExpiresIn; a token request takes 0..MaxLatency
\* seconds; a session with expires_in = 0 is polled SlowPolls times per
\* default timeout
MaxInterval == 2
MaxExpiresIn == 4
MaxLatency == 1
SlowPolls == 3

\* poll_for_token: 15 * 60 seconds when the response's expires_in is 0
session_timeout_no_default(expires_in) == expires_in

session_timeout(expires_in) == IF expires_in = 0 THEN 15 * 60 ELSE expires_in

\* StandardDeviceAuthorizationResponse: expires_in and interval
DeviceDetails ==
    { [expires_in |-> e, interval |-> i] : e \in 1..MaxExpiresIn, i \in 1..MaxInterval }
    \cup { [expires_in |-> 0, interval |-> (15 * 60) \div SlowPolls] }

\* what exchange_device_access_token(..).request_async(..) returns: Ok(token),
\* Err(ServerResponse(code)) with a DeviceCodeErrorResponseType, Err(Request),
\* or another RequestTokenError (Parse, Other)
ServerErrors == {"authorization_pending", "slow_down", "expired_token",
                 "access_denied", "invalid_grant"}

PollResults == {"ok"} \cup ServerErrors \cup {"request_error", "parse_error"}

\* BasicTokenResponse: the access token and its optional expires_in
TokenResponses ==
    { [access_token |-> "device-token", has_expires_in |-> b, expires_in |-> e] :
        b \in BOOLEAN, e \in {60, 3600} }

\* the match of poll_for_token: where the loop goes after a poll's result
after_poll_retries_request_error(result) ==
    CASE result = "ok" -> "success"
      [] result \in {"authorization_pending", "request_error"} -> "check"
      [] result = "slow_down" -> "extra_sleep"
      [] OTHER -> "failed"

after_poll(result) ==
    CASE result = "ok" -> "success"
      [] result = "authorization_pending" -> "check"
      [] result = "slow_down" -> "extra_sleep"
      [] OTHER -> "failed"

\* the AppError of each Err arm of the match: expired_token, access_denied,
\* another server error, Err(Request) and every other Err alike
poll_error_kind(result) == "DeviceCodeAuthFailed"

\* a fetch_token that takes the expiry buffer off the server's expires_in
TokenResult_buffered(token, scope) ==
    [access_token |-> token.access_token,
     expires_in_secs |-> IF token.has_expires_in
                         THEN token.expires_in - TOKEN_EXPIRY_BUFFER_SECS ELSE 3600,
     scope |-> scope]

\* fetch_token after poll_for_token: expires_in defaults to 3600
TokenResult(token, scope) ==
    [access_token |-> token.access_token,
     expires_in_secs |-> IF token.has_expires_in THEN token.expires_in ELSE 3600,
     scope |-> scope]

\* fetch_token: the device authorization request failed; no poll is made
DcRequestFailed(cause) ==
    /\ dc.pc = "idle"
    /\ dc' = [pc |-> "failed", error |-> "Device code request failed",
              cause |-> cause, kind |-> "DeviceCodeAuthFailed",
              responses |-> <<>>, inflight |-> 0, sleeps |-> 0, token |-> Nothing]
    /\ ev' = [op |-> "device_code", outcome |-> "request_failed"]
    /\ UNCHANGED <<now, home, file, tokens, run, slot, ia, env, mi, am, rq, mode, lg>>

\* fetch_token: the device authorization answered `details`; poll_for_token
\* reads interval and timeout and takes `start`
DcStart(cloud, details) ==
    /\ dc.pc = "idle"
    /\ dc' = [pc |-> "check", scope |-> cognitive_scope(cloud), details |-> details,
              interval |-> details.interval,
              timeout_secs |-> session_timeout(details.expires_in),
              elapsed |-> 0, sleeps |-> 0, inflight |-> 0, sent_at |-> 0,
              responses |-> <<>>, token |-> Nothing, error |-> None, kind |-> None,
              cause |-> None, answer |-> Nothing, entry |-> Nothing]
    /\ ev' = [op |-> "device_code", outcome |-> "polling"]
    /\ UNCHANGED <<now, home, file, tokens, run, slot, ia, env, mi, am, rq, mode, lg>>

\* top of the loop: if elapsed > timeout { return Err(..timed out..) }
DcCheck ==
    /\ dc.pc = "check"
    /\ IF dc.elapsed > dc.timeout_secs
       THEN /\ dc' = [dc EXCEPT !.pc = "timed_out",
                                !.error = "Authentication timed out. Please try again.",
                                !.kind = "DeviceCodeAuthFailed"]
            /\ ev' = [op |-> "device_code", outcome |-> "timed_out"]
       ELSE /\ dc' = [dc EXCEPT !.pc = "sleep"]
            /\ ev' = [op |-> "device_code", outcome |-> "polling"]
    /\ UNCHANGED <<now, home, file, tokens, run, slot, ia, env, mi, am, rq, mode, lg>>

\* sleep(interval).await, then the token request is sent
DcSleepAndPoll ==
    /\ dc.pc = "sleep"
    /\ dc' = [dc EXCEPT !.pc = "awaiting",
                        !.elapsed = dc.elapsed + dc.interval,
                        !.sleeps = dc.sleeps + 1,
                        !.inflight = dc.inflight + 1,
                        !.sent_at = dc.elapsed + dc.interval]
    /\ ev' = [op |-> "device_code", outcome |-> "polling"]
    /\ UNCHANGED <<now, home, file, tokens, run, slot, ia, env, mi, am, rq, mode, lg>>

\* the token request returns `result` after `latency` seconds
DcPollResult(result, token, latency) ==
    /\ dc.pc = "awaiting"
    /\ dc' = [dc EXCEPT !.pc = after_poll(result),
                        !.elapsed = dc.elapsed + latency,
                        !.inflight = dc.inflight - 1,
                        !.responses = Append(dc.responses, result),
                        !.token = IF after_poll(result) = "success"
                                  THEN TokenResult(token, dc.scope) ELSE Nothing,
                        !.answer = IF result = "ok" THEN token ELSE Nothing,
                        !.error = IF after_poll(result) = "failed" THEN result ELSE None,
                        !.kind = IF after_poll(result) = "failed"
                                 THEN poll_error_kind(result) ELSE None]
    /\ ev' = [op |-> "device_code",
              outcome |-> IF after_poll(result) \in {"success", "failed"}
                          THEN after_poll(result) ELSE "polling"]
    /\ UNCHANGED <<now, home, file, tokens, run, slot, ia, env, mi, am, rq, mode, lg>>

\* SlowDown: sleep(interval).await; continue
DcSlowDownSkipsSleep ==
    /\ dc.pc = "extra_sleep"
    /\ dc' = [dc EXCEPT !.pc = "check"]
    /\ ev' = [op |-> "device_code", outcome |-> "polling"]
    /\ UNCHANGED <<now, home, file, tokens, run, slot, ia, env, mi, am, rq, mode, lg>>

DcSlowDownSleep ==
    /\ dc.pc = "extra_sleep"
    /\ dc' = [dc EXCEPT !.pc = "check",
                        !.elapsed = dc.elapsed + dc.interval,
                        !.sleeps = dc.sleeps + 1]
    /\ ev' = [op |-> "device_code", outcome |-> "polling"]
    /\ UNCHANGED <<now, home, file, tokens, run, slot, ia, env, mi, am, rq, mode, lg>>

NextDevice ==
    \/ \E c \in FetchFailures : DcRequestFailed(c)
    \/ \E c \in Clouds, d \in DeviceDetails : DcStart(c, d)
    \/ DcCheck
    \/ DcSleepAndPoll
    \/ \E r \in PollResults, t \in TokenResponses, l \in 0..MaxLatency : DcPollResult(r, t, l)
    \/ DcSlowDownSleep

SpecDevice == Init /\ [][NextDevice]_vars

\* every step of the flow is taken: sleeps end and requests are answered
SpecDeviceFair == Init /\ [][NextDevice]_vars /\ WF_vars(NextDevice)


\* run_login with --save after authenticate() returned the TokenResult: the
\* entry expires expires_in_secs after Utc::now() and the cache is saved
DcLoginSave(tenant) ==
    /\ dc.pc = "success"
    /\ LET cache == IF load_ok(file, home) THEN load(file, home, now) ELSE <<>>
           entry == [access_token |-> dc.token.access_token,
                     expires_at |-> now + dc.token.expires_in_secs,
                     scope |-> dc.token.scope,
                     tenant_id |-> tenant]
       IN /\ dc' = [dc EXCEPT !.pc = "saved", !.entry = entry]
          /\ file' = save(insert(cache, entry), file, home)
          /\ mode' = save_mode(mode, home)
          /\ ev' = [op |-> "login",
                    outcome |-> IF save_ok(home) THEN "saved" ELSE "save_failed",
                    token |-> entry.access_token]
    /\ UNCHANGED <<now, home, tokens, run, slot, ia, env, mi, am, rq, lg>>

\* the device-code flow inside `login --save`, with the clock
NextDeviceLogin ==
    \/ NextDevice
    \/ Tick
    \/ \E t \in Tenants : DcLoginSave(t)

SpecDeviceLogin == Init /\ [][NextDeviceLogin]_vars

\* --------------------------------------------- claims on the device-code flow

\* the number of slow_down answers among a sequence of poll results
SlowDowns(rs) == Len(SelectSeq(rs, LAMBDA r : r = "slow_down"))

Deadline(details) == IF details.expires_in = 0 THEN 900 ELSE details.expires_in

\* C6: every poll is preceded by a sleep of `interval`, authorization_pending
\* adds no delay and each slow_down adds exactly one more sleep of `interval`
\* without changing the interval: when the k-th poll is outstanding, k plus
\* the number of slow_down answers among polls 1..k-1 sleeps have been
\* completed, and the time waited is at least that many intervals; the
\* answers [pending, pending, slow_down, success] end in success after at
\* least 3 intervals; there is never more than one poll outstanding.
C6_SleepsBeforePolls ==
    dc.pc # "idle" =>
        /\ dc.inflight \in {0, 1}
        /\ dc.inflight = 1 <=> dc.pc = "awaiting"
        /\ dc.pc \notin {"failed"} \/ dc.responses # <<>> =>
              /\ dc.interval = dc.details.interval
              /\ dc.elapsed >= dc.sleeps * dc.details.interval
              /\ dc.pc = "awaiting" =>
                    dc.sleeps = (Len(dc.responses) + 1) + SlowDowns(dc.responses)
              /\ dc.pc \in {"check", "sleep", "success", "failed", "timed_out"} =>
                    dc.sleeps = Len(dc.responses) + SlowDowns(dc.responses)
              /\ dc.pc = "extra_sleep" =>
                    dc.sleeps = Len(dc.responses) + SlowDowns(dc.responses) - 1
              /\ dc.responses = <<"authorization_pending", "authorization_pending",
                                  "slow_down", "ok">> =>
                    /\ dc.pc = "success"
                    /\ dc.token # Nothing
                    /\ dc.sleeps = 5
                    /\ dc.elapsed >= 3 * dc.details.interval

\* the answers were pending, pending, slow_down, success
C6_Witness ==
    /\ dc.pc = "success"
    /\ dc.responses = <<"authorization_pending", "authorization_pending",
                        "slow_down", "ok">>

\* C7: expired_token, access_denied, any other server error and any transport
\* or other request error end the loop in failure: no poll is issued after it
\* and no token is produced; only authorization_pending and slow_down are
\* followed by another poll.
C7_TerminalResponses ==
    (dc.pc # "idle" /\ dc.responses # <<>>) =>
        /\ \A i \in 1..(Len(dc.responses) - 1) :
              dc.responses[i] \in {"authorization_pending", "slow_down"}
        /\ dc.responses[Len(dc.responses)]
              \in {"expired_token", "access_denied", "invalid_grant",
                   "request_error", "parse_error"} =>
              /\ dc.pc = "failed"
              /\ dc.token = Nothing
              /\ dc.inflight = 0
        /\ dc.pc = "awaiting" =>
              dc.responses[Len(dc.responses)] \in {"authorization_pending", "slow_down"}
        /\ dc.token # Nothing => dc.responses[Len(dc.responses)] = "ok"

\* a transport error ended a session after a slow_down
C7_Witness ==
    /\ dc.pc = "failed"
    /\ dc.responses = <<"slow_down", "request_error">>

\* C8: a session whose polls all answer authorization_pending or slow_down
\* ends in the timeout failure without a token; the timeout is declared only
\* once the elapsed time exceeds the deadline, which is the response's
\* expires_in, or 900 s when that is 0, and never before.
C8_TimesOut ==
    /\ [](dc.pc = "timed_out" =>
            /\ dc.token = Nothing
            /\ dc.elapsed > Deadline(dc.details)
            /\ \A i \in 1..Len(dc.responses) :
                  dc.responses[i] \in {"authorization_pending", "slow_down"})
    /\ [](dc.pc = "sleep" => dc.elapsed <= Deadline(dc.details))
    /\ [](dc.pc \in {"check", "sleep", "awaiting", "extra_sleep"}
            => <>(dc.pc \in {"timed_out", "success", "failed"}))
    /\ []((dc.pc \in {"success", "failed"} /\ dc.responses # <<>>) =>
            dc.responses[Len(dc.responses)] \notin {"authorization_pending", "slow_down"})

\* a session with expires_in = 0 timed out after the default 15 minutes
C8_Witness ==
    /\ dc.pc = "timed_out"
    /\ dc.details.expires_in = 0
    /\ Len(dc.responses) >= 2

\* C9: no token request is issued at an elapsed time greater than the session
\* timeout, and no token is returned from a poll made after the deadline.
C9_NoPollAfterDeadline ==
    /\ dc.pc = "awaiting" => dc.sent_at <= Deadline(dc.details)
    /\ dc.pc = "success" => dc.sent_at <= Deadline(dc.details)

\* C24: a session answered pending, pending, token with expires_in = 3600
\* yields a TokenResult with expires_in_secs = 3600, the server's value being
\* passed through unchanged, and the cache entry run_login builds from it
\* reports remaining_minutes() of 59 or 60 and is valid.
C24_ExpiresInPassedThrough ==
    (dc.pc \in {"success", "saved"}
        /\ dc.responses = <<"authorization_pending", "authorization_pending", "ok">>
        /\ dc.answer.has_expires_in /\ dc.answer.expires_in = 3600) =>
        /\ dc.token.expires_in_secs = dc.answer.expires_in
        /\ dc.token.expires_in_secs = 3600
        /\ dc.pc = "saved" =>
              /\ remaining_minutes(dc.entry, now) \in {59, 60}
              /\ is_valid(dc.entry, now)
              /\ home => \E i \in 1..Len(file) :
                            file[i] = dc.entry /\ remaining_minutes(file[i], now) \in {59, 60}

\* the third poll brought a token with expires_in = 3600, the entry was saved
\* and a second has passed since
C24_Witness ==
    /\ dc.pc = "saved"
    /\ dc.responses = <<"authorization_pending", "authorization_pending", "ok">>
    /\ dc.answer.has_expires_in /\ dc.answer.expires_in = 3600
    /\ home /\ IsDoc(file) /\ Len(file) = 1
    /\ now > 0
    /\ remaining_minutes(dc.entry, now) = 59


\* ------------------------- auth/interactive.rs: InteractiveAuth::fetch_token

\* CsrfToken::new_random values, and what a callback may carry as `state`
CsrfTokens == {"state-A", "state-B"}

\* the request line read from the accepted connection:
\*   "no_target": no second whitespace-separated field,
\*   "bad_url":   a target that Url::parse rejects,
\*   "query":     a target whose query pairs are `params`
CallbackParams ==
    [ error : {None, "access_denied"}, error_description : {None, "declined"},
      code : {None, "auth-code"}, state : {None} \cup CsrfTokens ]

NoParams == [error |-> None, error_description |-> None, code |-> None, state |-> None]

CallbackRequests ==
    { [line |-> "no_target", params |-> NoParams], [line |-> "bad_url", params |-> NoParams] }
    \cup { [line |-> "query", params |-> q] : q \in CallbackParams }

\* a listener that looks for code and state before the error parameter
wait_for_callback_code_first(req) ==
    IF req.line = "query" /\ req.params.code # None /\ req.params.state # None
    THEN [ok |-> TRUE, http |-> "200", code |-> req.params.code, state |-> req.params.state]
    ELSE [ok |-> FALSE, http |-> "none", error |-> "Invalid callback request",
          err_code |-> None, err_desc |-> None]

\* wait_for_callback after the request line is read: the status written to
\* the browser ("none": nothing is written), and Ok((code, state)) or the Err
\* (`error` is the message, `err_code` and `err_desc` the values formatted
\* into "Authentication error: {} - {}")
wait_for_callback(req) ==
    IF req.line = "no_target"
    THEN [ok |-> FALSE, http |-> "none", error |-> "Invalid callback request",
          err_code |-> None, err_desc |-> None]
    ELSE IF req.line = "bad_url"
    THEN [ok |-> FALSE, http |-> "none", error |-> "Failed to parse callback URL",
          err_code |-> None, err_desc |-> None]
    ELSE IF req.params.error # None
    THEN [ok |-> FALSE, http |-> "400", error |-> "Authentication error",
          err_code |-> req.params.error,
          err_desc |-> IF req.params.error_description = None
                       THEN "" ELSE req.params.error_description]
    ELSE IF req.params.code = None
    THEN [ok |-> FALSE, http |-> "none", error |-> "No authorization code in callback",
          err_code |-> None, err_desc |-> None]
    ELSE IF req.params.state = None
    THEN [ok |-> FALSE, http |-> "none", error |-> "No state parameter in callback",
          err_code |-> None, err_desc |-> None]
    ELSE [ok |-> TRUE, http |-> "200", code |-> req.params.code, state |-> req.params.state]

\* fetch_token: received_state.secret() != csrf_state.secret() fails the attempt
csrf_check_skipped(received_state, csrf_state) == TRUE

csrf_matches(received_state, csrf_state) == received_state = csrf_state

\* fetch_token: TcpListener::bind failed
IaBindFailed ==
    /\ ia.pc = "idle"
    /\ ia' = [pc |-> "failed", error |-> "Failed to bind localhost listener",
              kind |-> "Auth", err_code |-> None, err_desc |-> None,
              csrf |-> None, accepted |-> 0, http |-> "none", posts |-> 0,
              request |-> Nothing, token |-> Nothing]
    /\ ev' = [op |-> "interactive", outcome |-> "failed"]
    /\ UNCHANGED <<now, home, file, tokens, run, slot, dc, env, mi, am, rq, mode, lg>>

\* fetch_token up to wait_for_callback: the listener is bound, the PKCE pair
\* and the CSRF token are generated, the URL is printed and the browser opened
IaStart(csrf) ==
    /\ ia.pc = "idle"
    /\ ia' = [pc |-> "waiting", error |-> None, kind |-> None,
              err_code |-> None, err_desc |-> None,
              csrf |-> csrf, accepted |-> 0,
              http |-> "none", posts |-> 0, request |-> Nothing, token |-> Nothing]
    /\ ev' = [op |-> "interactive", outcome |-> "waiting"]
    /\ UNCHANGED <<now, home, file, tokens, run, slot, dc, env, mi, am, rq, mode, lg>>

\* listener.accept() or read_line failed
IaAcceptFailed ==
    /\ ia.pc = "waiting"
    /\ ia' = [ia EXCEPT !.pc = "failed", !.kind = "Auth",
                        !.error = "Failed to accept callback connection"]
    /\ ev' = [op |-> "interactive", outcome |-> "failed"]
    /\ UNCHANGED <<now, home, file, tokens, run, slot, dc, env, mi, am, rq, mode, lg>>

\* a connection is accepted and its request line read: wait_for_callback
\* returns, the CSRF state is verified and exchange_code sends its POST
IaCallback(req) ==
    /\ ia.pc = "waiting"
    /\ LET cb == wait_for_callback(req)
       IN IF ~cb.ok
          THEN ia' = [ia EXCEPT !.pc = "failed", !.error = cb.error, !.kind = "Auth",
                                !.err_code = cb.err_code, !.err_desc = cb.err_desc,
                                !.accepted = ia.accepted + 1,
                                !.http = cb.http, !.request = req]
          ELSE IF ~csrf_matches(cb.state, ia.csrf)
          THEN ia' = [ia EXCEPT !.pc = "failed", !.error = "CSRF state mismatch",
                                !.kind = "Auth",
                                !.accepted = ia.accepted + 1,
                                !.http = cb.http, !.request = req]
          ELSE ia' = [ia EXCEPT !.pc = "exchanging",
                                !.accepted = ia.accepted + 1,
                                !.http = cb.http, !.request = req,
                                !.posts = ia.posts + 1]
    /\ ev' = [op |-> "interactive", outcome |-> ia'.pc]
    /\ UNCHANGED <<now, home, file, tokens, run, slot, dc, env, mi, am, rq, mode, lg>>

\* exchange_code: the AppError of a failed send(), of a non-success status
\* and of a body that does not parse
exchange_code_error(result) == "Auth"

\* what the token endpoint's answer to the POST of exchange_code comes to
ExchangeResults == {"ok", "transport_error", "status_error", "parse_error"}

\* an exchange that sends the POST again after a failure
IaExchangedRetries(result, expires_in) ==
    /\ ia.pc = "exchanging"
    /\ IF result = "ok"
       THEN ia' = [ia EXCEPT !.pc = "success",
                             !.token = [access_token |-> "interactive-token",
                                        expires_in_secs |-> expires_in,
                                        scope |-> cognitive_scope("Global")]]
       ELSE ia' = [ia EXCEPT !.posts = ia.posts + 1]
    /\ ev' = [op |-> "interactive", outcome |-> ia'.pc]
    /\ UNCHANGED <<now, home, file, tokens, run, slot, dc, env, mi, am, rq, mode, lg>>

\* an exchange whose send().await never returns
IaExchangedHangs(result, expires_in) ==
    /\ ia.pc = "exchanging"
    /\ UNCHANGED vars

\* exchange_code after send().await
IaExchanged(result, expires_in) ==
    /\ ia.pc = "exchanging"
    /\ IF result = "ok"
       THEN ia' = [ia EXCEPT !.pc = "success",
                             !.token = [access_token |-> "interactive-token",
                                        expires_in_secs |-> expires_in,
                                        scope |-> cognitive_scope("Global")]]
       ELSE ia' = [ia EXCEPT !.pc = "failed", !.error = result,
                             !.kind = exchange_code_error(result)]
    /\ ev' = [op |-> "interactive", outcome |-> ia'.pc]
    /\ UNCHANGED <<now, home, file, tokens, run, slot, dc, env, mi, am, rq, mode, lg>>

NextInteractive ==
    \/ IaBindFailed
    \/ \E c \in CsrfTokens : IaStart(c)
    \/ IaAcceptFailed
    \/ \E r \in CallbackRequests : IaCallback(r)
    \/ \E r \in ExchangeResults, e \in {60, 3600} : IaExchanged(r, e)

SpecInteractive == Init /\ [][NextInteractive]_vars

\* the POST of exchange_code is answered or times out (the client is built
\* with a 30 s timeout); nothing makes a browser connect to the listener
SpecInteractiveFair ==
    /\ Init
    /\ [][NextInteractive]_vars
    /\ WF_vars(\E r \in ExchangeResults, e \in {60, 3600} : IaExchanged(r, e))

\* ------------------------------------------- claims on the interactive flow

\* C10: whenever the callback's state is not exactly the CSRF token generated
\* for the attempt, authenticate() fails and no token-exchange request is
\* sent to the token endpoint.
C10_CsrfMismatchNoExchange ==
    (ia.pc \notin {"idle", "waiting"} /\ ia.request # Nothing
        /\ ia.request.params.state # ia.csrf) =>
        /\ ia.pc = "failed"
        /\ ia.posts = 0
        /\ ia.token = Nothing

\* a callback with a code and another attempt's state was rejected
C10_Witness ==
    /\ ia.pc = "failed"
    /\ ia.request # Nothing
    /\ ia.request.line = "query"
    /\ ia.request.params.error = None
    /\ ia.request.params.code = "auth-code"
    /\ ia.request.params.state = "state-B"
    /\ ia.csrf = "state-A"
    /\ ia.error = "CSRF state mismatch"

\* the callback of the attempt carried an `error` query parameter
IaErrorCallback ==
    /\ ia.pc # "idle"
    /\ ia.request # Nothing
    /\ ia.request.line = "query"
    /\ ia.request.params.error # None

\* C11: a callback that carries an `error` parameter, with or without code
\* and state, makes authenticate() fail with an error holding that error code
\* and description; the response written to the browser has status 400, and
\* no token exchange is attempted.
C11_ErrorParamFails ==
    IaErrorCallback =>
        /\ ia.pc = "failed"
        /\ ia.error = "Authentication error"
        /\ ia.err_code = ia.request.params.error
        /\ ia.err_desc = (IF ia.request.params.error_description = None
                          THEN "" ELSE ia.request.params.error_description)
        /\ ia.http = "400"
        /\ ia.posts = 0
        /\ ia.token = Nothing

\* an error callback that also carried a code and the right state was refused
C11_Witness ==
    /\ IaErrorCallback
    /\ ia.request.params.error_description = "declined"
    /\ ia.request.params.code = "auth-code"
    /\ ia.request.params.state = ia.csrf
    /\ ia.pc = "failed"
    /\ ia.http = "400"

\* C12: per attempt the listener accepts exactly one connection, and for it
\* exactly one HTML response is written, for every callback outcome: error
\* parameter, code and state present, code missing, state missing, or
\* unparseable request line.
C12_OneResponsePerConnection ==
    /\ ia.pc # "idle" => ia.accepted <= 1
    /\ (ia.pc # "idle" /\ ia.request # Nothing) =>
          /\ ia.accepted = 1
          /\ ia.http \in {"200", "400"}

MaxFetches == 2

\* what env::var yields for a name: NotPresent or the value
EnvValues == {NotPresent, "value-1", "value-2"}

VirtualMachine == [variant |-> "VirtualMachine", endpoint |-> None, header |-> None]

\* a detection that takes either identity variable for App Service
detect_endpoint_either(e) ==
    IF e["IDENTITY_ENDPOINT"] # NotPresent \/ e["IDENTITY_HEADER"] # NotPresent
    THEN [ok |-> TRUE,
          endpoint |-> [variant |-> "AppService",
                        endpoint |-> e["IDENTITY_ENDPOINT"],
                        header |-> e["IDENTITY_HEADER"]]]
    ELSE [ok |-> TRUE, endpoint |-> VirtualMachine]

\* detect_endpoint: Ok(AppService { endpoint, header }) when env::var is Ok
\* for both names, else Ok(VirtualMachine) with or without MSI_ENDPOINT
detect_endpoint(e) ==
    IF e["IDENTITY_ENDPOINT"] # NotPresent /\ e["IDENTITY_HEADER"] # NotPresent
    THEN [ok |-> TRUE,
          endpoint |-> [variant |-> "AppService",
                        endpoint |-> e["IDENTITY_ENDPOINT"],
                        header |-> e["IDENTITY_HEADER"]]]
    ELSE IF e["MSI_ENDPOINT"] # NotPresent
    THEN [ok |-> TRUE, endpoint |-> VirtualMachine]
    ELSE [ok |-> TRUE, endpoint |-> VirtualMachine]

\* what the GET of a fetch comes to: a parsed 2xx body, a send() error, a
\* non-success status, a body that is not a ManagedIdentityResponse
MiOutcomes == {"ok", "transport_error", "status_error", "parse_error"}

\* the GET each variant sends
mi_request(endpoint) ==
    IF endpoint.variant = "AppService"
    THEN [url |-> endpoint.endpoint, header |-> <<"X-IDENTITY-HEADER", endpoint.header>>]
    ELSE [url |-> "http://169.254.169.254/metadata/identity/oauth2/token",
          header |-> <<"Metadata", "true">>]

\* fetch_app_service_token after send().await
fetch_app_service_token(outcome) ==
    IF outcome = "ok"
    THEN [ok |-> TRUE, token |-> "mi-token"]
    ELSE [ok |-> FALSE, kind |-> "ManagedIdentityNotAvailable",
          message |-> CASE outcome = "transport_error" ->
                               "Failed to reach App Service identity endpoint"
                        [] outcome = "status_error" -> "HTTP status"
                        [] OTHER -> "Failed to parse response"]

\* a VM fetch that reports a transport failure as a network error
fetch_vm_token_network_error(outcome) ==
    IF outcome = "ok"
    THEN [ok |-> TRUE, token |-> "mi-token"]
    ELSE [ok |-> FALSE,
          kind |-> IF outcome = "transport_error"
                   THEN "Network" ELSE "ManagedIdentityNotAvailable",
          message |-> "failed"]

\* fetch_vm_token after send().await
fetch_vm_token(outcome) ==
    IF outcome = "ok"
    THEN [ok |-> TRUE, token |-> "mi-token"]
    ELSE [ok |-> FALSE, kind |-> "ManagedIdentityNotAvailable",
          message |-> CASE outcome = "transport_error" ->
                               "Could not reach IMDS endpoint (169.254.169.254)"
                        [] outcome = "status_error" -> "HTTP status"
                        [] OTHER -> "Failed to parse response"]

\* env::set_var / env::remove_var: the environment the process runs in
SetEnv(name, value) ==
    /\ env[name] # value
    /\ env' = [env EXCEPT ![name] = value]
    /\ ev' = [op |-> "env"]
    /\ UNCHANGED <<now, home, file, tokens, run, slot, dc, ia, mi, am, rq, mode, lg>>

\* ManagedIdentityAuth::new: detect_endpoint()?, then the HTTP client is built
MiNew(client_ok) ==
    /\ mi.pc = "none"
    /\ LET d == detect_endpoint(env)
       IN mi' = IF ~d.ok
                THEN [pc |-> "failed", detected |-> FALSE, env0 |-> env,
                      error |-> "ManagedIdentityNotAvailable"]
                ELSE IF ~client_ok
                THEN [pc |-> "failed", detected |-> TRUE, env0 |-> env,
                      error |-> "ManagedIdentityNotAvailable"]
                ELSE [pc |-> "ready", detected |-> TRUE, env0 |-> env,
                      endpoint |-> d.endpoint, calls |-> 0, gets |-> 0,
                      request |-> Nothing, outcome |-> None, last |-> Nothing]
    /\ ev' = [op |-> "mi_new"]
    /\ UNCHANGED <<now, home, file, tokens, run, slot, dc, ia, env, am, rq, mode, lg>>

\* get_credentials -> fetch_token: the variant's GET is sent
MiFetch ==
    /\ mi.pc = "ready"
    /\ mi.calls < MaxFetches
    /\ mi' = [mi EXCEPT !.pc = "awaiting", !.calls = mi.calls + 1,
                        !.gets = mi.gets + 1,
                        !.request = mi_request(mi.endpoint),
                        !.outcome = None, !.last = Nothing]
    /\ ev' = [op |-> "mi_fetch"]
    /\ UNCHANGED <<now, home, file, tokens, run, slot, dc, ia, env, am, rq, mode, lg>>

\* the GET is answered or fails: fetch_token returns, get_credentials wraps
\* the token in Credentials::BearerToken or passes the error on
MiResponse(outcome) ==
    /\ mi.pc = "awaiting"
    /\ mi' = [mi EXCEPT !.pc = "ready", !.outcome = outcome,
                        !.last = IF mi.endpoint.variant = "AppService"
                                 THEN fetch_app_service_token(outcome)
                                 ELSE fetch_vm_token(outcome)]
    /\ ev' = [op |-> "mi_response"]
    /\ UNCHANGED <<now, home, file, tokens, run, slot, dc, ia, env, am, rq, mode, lg>>

NextManaged ==
    \/ \E n \in EnvNames, v \in EnvValues : SetEnv(n, v)
    \/ \E c \in BOOLEAN : MiNew(c)
    \/ MiFetch
    \/ \E o \in MiOutcomes : MiResponse(o)

SpecManaged == Init /\ [][NextManaged]_vars

\* ------------------------------------------ claims on the managed identity

\* env::var yields a value for both App-Service variables in environment e
BothIdentityVars(e) ==
    e["IDENTITY_ENDPOINT"] # NotPresent /\ e["IDENTITY_HEADER"] # NotPresent

\* C14: detection resolves to the App-Service variant if and only if both
\* IDENTITY_ENDPOINT and IDENTITY_HEADER are present when the provider is
\* constructed, and to the VM variant in every other environment, whatever
\* MSI_ENDPOINT is; detection never fails; every later fetch_token uses the
\* variant chosen at construction, whatever the environment has become.
C14_DetectionFixedAtConstruction ==
    /\ mi.pc # "none" => mi.detected
    /\ mi.pc \in {"ready", "awaiting"} =>
          /\ mi.endpoint.variant = "AppService" <=> BothIdentityVars(mi.env0)
          /\ mi.endpoint.variant = "VirtualMachine" <=> ~BothIdentityVars(mi.env0)
          /\ mi.calls > 0 =>
                IF BothIdentityVars(mi.env0)
                THEN /\ mi.request.url = mi.env0["IDENTITY_ENDPOINT"]
                     /\ mi.request.header =
                            <<"X-IDENTITY-HEADER", mi.env0["IDENTITY_HEADER"]>>
                ELSE mi.request.header = <<"Metadata", "true">>

\* a provider built with only IDENTITY_ENDPOINT and MSI_ENDPOINT set sends
\* its second GET to the metadata service after IDENTITY_HEADER was set too
C14_Witness ==
    /\ mi.pc = "awaiting"
    /\ mi.calls = 2
    /\ mi.env0["IDENTITY_ENDPOINT"] # NotPresent
    /\ mi.env0["IDENTITY_HEADER"] = NotPresent
    /\ mi.env0["MSI_ENDPOINT"] # NotPresent
    /\ BothIdentityVars(env)
    /\ mi.request.header = <<"Metadata", "true">>

\* C15: every failure of fetch_token on either variant (transport failure,
\* non-success status, unparseable body) is reported as
\* ManagedIdentityNotAvailable, never as Auth or Network, and each
\* fetch_token call issues a single GET, with no retry.
C15_FailuresAreNotAvailable ==
    mi.pc \in {"ready", "awaiting"} =>
        /\ mi.gets = mi.calls
        /\ (mi.pc = "ready" /\ mi.calls > 0) =>
              /\ mi.last.ok <=> mi.outcome = "ok"
              /\ ~mi.last.ok => mi.last.kind = "ManagedIdentityNotAvailable"

\* the metadata service could not be reached on the second call
C15_Witness ==
    /\ mi.pc = "ready"
    /\ mi.calls = 2
    /\ mi.endpoint.variant = "VirtualMachine"
    /\ mi.outcome = "transport_error"
    /\ ~mi.last.ok

\* --------------------------------------------- auth/mod.rs: AuthManager

\* config::AuthMethod
AuthMethods == {"Key", "Token", "Both", "DeviceCode", "ManagedIdentity", "ManualToken"}

\* Option<&EntraConfig>: each of its fields is an Option
EntraConfigs ==
    [ tenant_id : {None, "entra-tenant"}, client_id : {None, "entra-client"},
      client_secret : {None, "entra-secret"} ]

\* Option<&UserAuthConfig>
UserAuthConfigs ==
    [ tenant_id : {None, "tenant1"}, client_id : {None},
      managed_identity_client_id : {None},
      bearer_token : {None, "bearer-token", "rejected-token"} ]

\* the arguments of new_with_options, and whether Client::builder().build()
\* succeeds in this process
ManagerArgs ==
    [ api_key : {None, "api-key"},
      entra_config : {Nothing} \cup EntraConfigs,
      user_config : {Nothing} \cup UserAuthConfigs,
      cloud : Clouds,
      default_method : AuthMethods,
      client_ok : BOOLEAN ]

\* AppError::exit_code
exit_code(kind) ==
    CASE kind \in {"Config", "TomlParse"} -> "ConfigError"
      [] kind \in {"Auth", "DeviceCodeAuthFailed", "ManagedIdentityNotAvailable",
                   "InvalidBearerToken", "MissingTenantId"} -> "AuthFailure"
      [] kind \in {"Network", "Http", "Timeout"} -> "NetworkFailure"
      [] kind \in {"InvalidInput", "FileNotFound", "UrlParse", "Io"} -> "InvalidInput"
      [] OTHER -> "TestFailure"

\* ManualTokenAuth::new(token): Ok, or the Err its `?` passes on
ManualTokenAuth_new(token) ==
    IF token = "rejected-token"
    THEN [ok |-> FALSE, kind |-> "InvalidBearerToken"]
    ELSE [ok |-> TRUE, provider |-> [auth |-> "ManualTokenAuth", token |-> token]]

\* EntraTokenAuth::new(config, cloud)
EntraTokenAuth_new(config, cloud, client_ok) ==
    IF config.tenant_id = None \/ config.client_id = None \/ config.client_secret = None
    THEN [ok |-> FALSE, kind |-> "Auth"]
    ELSE IF ~client_ok
    THEN [ok |-> FALSE, kind |-> "Network"]
    ELSE [ok |-> TRUE,
          provider |-> [auth |-> "EntraTokenAuth", tenant_id |-> config.tenant_id,
                        client_id |-> config.client_id,
                        client_secret |-> config.client_secret,
                        scope |-> cognitive_scope(cloud)]]

\* ManagedIdentityAuth::new(cloud, user_assigned_client_id)
ManagedIdentityAuth_new(client_ok) ==
    LET d == detect_endpoint(env)
    IN IF ~d.ok \/ ~client_ok
       THEN [ok |-> FALSE, kind |-> "ManagedIdentityNotAvailable"]
       ELSE [ok |-> TRUE,
             provider |-> [auth |-> "ManagedIdentityAuth", endpoint |-> d.endpoint]]

\* DeviceCodeAuth::new(tenant_id, client_id, cloud)
DeviceCodeAuth_new(tenant_id, cloud) ==
    [ok |-> TRUE,
     provider |-> [auth |-> "DeviceCodeAuth", tenant_id |-> tenant_id,
                   scope |-> cognitive_scope(cloud)]]

\* new_with_options: api_key.map(ApiKeyAuth::new)
api_key_auth(args) ==
    IF args.api_key = None THEN [ok |-> TRUE, provider |-> Nothing]
    ELSE [ok |-> TRUE, provider |-> [auth |-> "ApiKeyAuth", api_key |-> args.api_key]]

\* an Entra slot built as soon as a tenant_id is configured
entra_auth_partial(args) ==
    IF args.entra_config # Nothing /\ args.entra_config.tenant_id # None
    THEN [ok |-> TRUE,
          provider |-> [auth |-> "EntraTokenAuth",
                        tenant_id |-> args.entra_config.tenant_id,
                        client_id |-> args.entra_config.client_id,
                        client_secret |-> args.entra_config.client_secret,
                        scope |-> cognitive_scope(args.cloud)]]
    ELSE [ok |-> TRUE, provider |-> Nothing]

\* new_with_options: entra_auth
entra_auth(args) ==
    IF args.entra_config # Nothing
    THEN IF /\ args.entra_config.tenant_id # None
            /\ args.entra_config.client_id # None
            /\ args.entra_config.client_secret # None
         THEN EntraTokenAuth_new(args.entra_config, args.cloud, args.client_ok)
         ELSE [ok |-> TRUE, provider |-> Nothing]
    ELSE [ok |-> TRUE, provider |-> Nothing]

\* new_with_options: manual_token_auth
manual_token_auth(args) ==
    IF args.user_config # Nothing
    THEN IF args.user_config.bearer_token # None
         THEN ManualTokenAuth_new(args.user_config.bearer_token)
         ELSE [ok |-> TRUE, provider |-> Nothing]
    ELSE [ok |-> TRUE, provider |-> Nothing]

\* new_with_options: managed_identity_auth
managed_identity_auth(args) ==
    IF args.default_method = "ManagedIdentity"
    THEN ManagedIdentityAuth_new(args.client_ok)
    ELSE [ok |-> TRUE, provider |-> Nothing]

\* new_with_options: device_code_auth
device_code_auth(args) ==
    IF args.default_method = "DeviceCode"
    THEN IF args.user_config = Nothing
         THEN [ok |-> FALSE, kind |-> "MissingTenantId"]
         ELSE IF args.user_config.tenant_id = None
         THEN [ok |-> FALSE, kind |-> "MissingTenantId"]
         ELSE DeviceCodeAuth_new(args.user_config.tenant_id, args.cloud)
    ELSE [ok |-> TRUE, provider |-> Nothing]

\* AuthManager::new_with_options: the slots are built in the order of the
\* code, and the first Err is the result
new_with_options(args) ==
    LET k == api_key_auth(args)
        e == entra_auth(args)
        t == manual_token_auth(args)
        m == managed_identity_auth(args)
        c == device_code_auth(args)
    IN IF ~e.ok THEN [ok |-> FALSE, kind |-> e.kind]
       ELSE IF ~t.ok THEN [ok |-> FALSE, kind |-> t.kind]
       ELSE IF ~m.ok THEN [ok |-> FALSE, kind |-> m.kind]
       ELSE IF ~c.ok THEN [ok |-> FALSE, kind |-> c.kind]
       ELSE [ok |-> TRUE,
             api_key |-> k.provider, entra |-> e.provider,
             manual_token |-> t.provider, managed_identity |-> m.provider,
             device_code |-> c.provider, default_method |-> args.default_method]

\* a get_provider whose Key arm falls back to the Entra provider
get_provider_falls_back(self) ==
    IF self.api_key # Nothing THEN [ok |-> TRUE, provider |-> self.api_key]
    ELSE IF self.entra # Nothing THEN [ok |-> TRUE, provider |-> self.entra]
    ELSE [ok |-> FALSE, kind |-> "Config", message |-> "No authentication configured"]

\* AuthManager::get_provider
get_provider(self) ==
    CASE self.default_method = "Key" ->
            IF self.api_key # Nothing THEN [ok |-> TRUE, provider |-> self.api_key]
            ELSE [ok |-> FALSE, kind |-> "Config", message |-> "API key not configured"]
      [] self.default_method = "Token" ->
            IF self.entra # Nothing THEN [ok |-> TRUE, provider |-> self.entra]
            ELSE [ok |-> FALSE, kind |-> "Config",
                  message |-> "Entra token auth not configured"]
      [] self.default_method = "DeviceCode" ->
            IF self.device_code # Nothing THEN [ok |-> TRUE, provider |-> self.device_code]
            ELSE [ok |-> FALSE, kind |-> "MissingTenantId",
                  message |-> "User authentication requires tenant ID"]
      [] self.default_method = "ManagedIdentity" ->
            IF self.managed_identity # Nothing
            THEN [ok |-> TRUE, provider |-> self.managed_identity]
            ELSE [ok |-> FALSE, kind |-> "ManagedIdentityNotAvailable",
                  message |-> "Managed identity not available in this environment"]
      [] self.default_method = "ManualToken" ->
            IF self.manual_token # Nothing THEN [ok |-> TRUE, provider |-> self.manual_token]
            ELSE [ok |-> FALSE, kind |-> "InvalidBearerToken",
                  message |-> "Bearer token not provided"]
      [] OTHER ->
            IF self.api_key # Nothing THEN [ok |-> TRUE, provider |-> self.api_key]
            ELSE IF self.entra # Nothing THEN [ok |-> TRUE, provider |-> self.entra]
            ELSE [ok |-> FALSE, kind |-> "Config",
                  message |-> "No authentication configured"]

\* AuthManager::get_all_providers
get_all_providers(self) ==
    (IF self.api_key # Nothing THEN <<self.api_key>> ELSE <<>>)
        \o (IF self.entra # Nothing THEN <<self.entra>> ELSE <<>>)

\* AuthManager::new_with_options(..)? in a caller
AmNew(args) ==
    /\ am.pc = "none"
    /\ LET r == new_with_options(args)
       IN am' = IF r.ok
                THEN [pc |-> "built", args |-> args, self |-> r,
                      got |-> Nothing, all |-> Nothing]
                ELSE [pc |-> "failed", args |-> args, kind |-> r.kind,
                      exit |-> exit_code(r.kind)]
    /\ ev' = [op |-> "manager_new"]
    /\ UNCHANGED <<now, home, file, tokens, run, slot, dc, ia, env, mi, rq, mode, lg>>

\* auth_manager.get_provider()
AmGetProvider ==
    /\ am.pc = "built"
    /\ am.got = Nothing
    /\ LET r == get_provider(am.self)
       IN am' = [am EXCEPT !.got = IF r.ok THEN r
                                   ELSE [ok |-> FALSE, kind |-> r.kind,
                                         message |-> r.message,
                                         exit |-> exit_code(r.kind)]]
    /\ ev' = [op |-> "get_provider"]
    /\ UNCHANGED <<now, home, file, tokens, run, slot, dc, ia, env, mi, rq, mode, lg>>

\* auth_manager.get_all_providers()
AmGetAllProviders ==
    /\ am.pc = "built"
    /\ am.all = Nothing
    /\ am' = [am EXCEPT !.all = [providers |-> get_all_providers(am.self)]]
    /\ ev' = [op |-> "get_all_providers"]
    /\ UNCHANGED <<now, home, file, tokens, run, slot, dc, ia, env, mi, rq, mode, lg>>

NextManager ==
    \/ \E a \in ManagerArgs : AmNew(a)
    \/ AmGetProvider
    \/ AmGetAllProviders

SpecManager == Init /\ [][NextManager]_vars

\* ------------------------------------------------ claims on the AuthManager

\* the provider type of each method other than Both
ProviderOf(method) ==
    CASE method = "Key" -> "ApiKeyAuth"
      [] method = "Token" -> "EntraTokenAuth"
      [] method = "DeviceCode" -> "DeviceCodeAuth"
      [] method = "ManagedIdentity" -> "ManagedIdentityAuth"
      [] OTHER -> "ManualTokenAuth"

\* tenant_id, client_id and client_secret of the Entra settings are all given
EntraComplete(args) ==
    /\ args.entra_config # Nothing
    /\ args.entra_config.tenant_id # None
    /\ args.entra_config.client_id # None
    /\ args.entra_config.client_secret # None

UserTenantGiven(args) ==
    args.user_config # Nothing /\ args.user_config.tenant_id # None

BearerGiven(args) ==
    args.user_config # Nothing /\ args.user_config.bearer_token # None

\* C16: get_provider never returns a provider of a method other than the
\* configured default: for Key, Token, DeviceCode, ManagedIdentity and
\* ManualToken it returns that method's provider or an error; for Both it
\* returns the API-key provider whenever a key is configured, else the Entra
\* provider if configured, else an error, and never a device-code,
\* managed-identity or manual-token provider.
C16_ProviderOfDefaultMethod ==
    (am.pc = "built" /\ am.got # Nothing) =>
        /\ (am.args.default_method # "Both" /\ am.got.ok) =>
              am.got.provider.auth = ProviderOf(am.args.default_method)
        /\ am.args.default_method = "Both" =>
              IF am.args.api_key # None
              THEN /\ am.got.ok
                   /\ am.got.provider = [auth |-> "ApiKeyAuth", api_key |-> am.args.api_key]
              ELSE IF EntraComplete(am.args)
              THEN am.got.ok /\ am.got.provider.auth = "EntraTokenAuth"
              ELSE ~am.got.ok

\* with Both, no API key and complete Entra settings the Entra provider is
\* returned although a bearer token and a user tenant are configured too
C16_Witness ==
    /\ am.pc = "built"
    /\ am.got # Nothing
    /\ am.args.default_method = "Both"
    /\ am.args.api_key = None
    /\ EntraComplete(am.args)
    /\ UserTenantGiven(am.args)
    /\ BearerGiven(am.args)
    /\ am.got.ok
    /\ am.got.provider.auth = "EntraTokenAuth"

\* the prerequisite of the selected default method is missing
MissingPrerequisite(args) ==
    \/ args.default_method = "Key" /\ args.api_key = None
    \/ args.default_method = "Token" /\ ~EntraComplete(args)
    \/ args.default_method = "DeviceCode" /\ ~UserTenantGiven(args)
    \/ args.default_method = "ManualToken" /\ ~BearerGiven(args)

\* nothing else than a missing prerequisite can fail in the construction
NothingElseFails(args) ==
    /\ args.client_ok
    /\ ~(BearerGiven(args) /\ args.user_config.bearer_token = "rejected-token")

\* C17: when the prerequisite of the selected default method is missing (Key
\* without API key, Token without full Entra settings, DeviceCode without
\* tenant_id, ManualToken without bearer token), construction followed by
\* get_provider fails with an error of the configuration kind, which maps to
\* the configuration-error exit status.
C17_MissingPrerequisiteIsConfigError ==
    (am.pc # "none" /\ MissingPrerequisite(am.args) /\ NothingElseFails(am.args)) =>
        /\ am.pc = "failed" => (am.kind = "Config" /\ am.exit = "ConfigError")
        /\ (am.pc = "built" /\ am.got # Nothing) =>
              /\ ~am.got.ok
              /\ am.got.kind = "Config"
              /\ am.got.exit = "ConfigError"

\* the populated slots of a manager
PopulatedSlots(self) ==
    { p \in {self.api_key, self.entra, self.manual_token,
             self.managed_identity, self.device_code} : p # Nothing }

\* C18: get_all_providers returns every provider that was constructed in the
\* manager (API key, Entra, manual token, device-code, managed identity),
\* whatever the default method is.
C18_AllProvidersListed ==
    (am.pc = "built" /\ am.all # Nothing) =>
        { am.all.providers[i] : i \in 1..Len(am.all.providers) } = PopulatedSlots(am.self)

\* C19 as claimed: after construction each slot is populated if and only if
\* all prerequisites of its provider are configured (API key: a key; Entra:
\* tenant_id, client_id and client_secret; manual token: a bearer token;
\* device-code: a user tenant_id).
C19_SlotsIffPrerequisites ==
    am.pc = "built" =>
        /\ am.self.api_key # Nothing <=> am.args.api_key # None
        /\ am.self.entra # Nothing <=> EntraComplete(am.args)
        /\ am.self.manual_token # Nothing <=> BearerGiven(am.args)
        /\ am.self.device_code # Nothing <=> UserTenantGiven(am.args)

\* C19 amended: after construction the API-key, Entra and manual-token slots
\* are populated if and only if their prerequisites are all configured, and the
\* device-code slot if and only if a user tenant_id is configured and
\* DeviceCode is the default method; a partially specified provider
\* configuration yields no provider, and a populated slot holds the
\* configured values.
C19_SlotsIffPrerequisitesAndRequested ==
    am.pc = "built" =>
        /\ am.self.api_key # Nothing <=> am.args.api_key # None
        /\ am.self.entra # Nothing <=> EntraComplete(am.args)
        /\ am.self.manual_token # Nothing <=> BearerGiven(am.args)
        /\ am.self.device_code # Nothing <=>
              (UserTenantGiven(am.args) /\ am.args.default_method = "DeviceCode")
        /\ am.self.entra # Nothing =>
              /\ am.self.entra.tenant_id = am.args.entra_config.tenant_id
              /\ am.self.entra.client_id = am.args.entra_config.client_id
              /\ am.self.entra.client_secret = am.args.entra_config.client_secret
        /\ am.self.device_code # Nothing =>
              am.self.device_code.tenant_id = am.args.user_config.tenant_id
        /\ am.self.manual_token # Nothing =>
              am.self.manual_token.token = am.args.user_config.bearer_token

\* Entra settings with a tenant_id only gave no Entra provider, next to a
\* populated manual-token slot and a device-code slot left empty because Key
\* is the default
C19_Witness ==
    /\ am.pc = "built"
    /\ am.args.entra_config # Nothing
    /\ am.args.entra_config.tenant_id # None
    /\ am.args.entra_config.client_id = None
    /\ am.self.entra = Nothing
    /\ am.args.default_method = "Key"
    /\ UserTenantGiven(am.args)
    /\ am.self.device_code = Nothing
    /\ am.self.manual_token # Nothing

\* ----------------------- testing/mod.rs: TestRunner::get_credentials

\* TestRunnerConfig: the fields get_credentials reads
TrConfigs ==
    [ no_cache : BOOLEAN, auth_method : {"Key", "DeviceCode"}, cloud : Clouds,
      api_key : {None, "api-key"},
      user_config : {Nothing} \cup
                    { u \in UserAuthConfigs : u.bearer_token = None } ]

\* a test run that reads the disk cache whatever the auth method is
cache_consulted_any_method(config) == ~config.no_cache

\* if !self.config.no_cache && self.config.auth_method == AuthMethod::DeviceCode
cache_consulted(config) == ~config.no_cache /\ config.auth_method = "DeviceCode"

\* user_config.as_ref().and_then(|c| c.tenant_id.as_deref()).unwrap_or("")
configured_tenant(config) ==
    IF config.user_config = Nothing THEN ""
    ELSE IF config.user_config.tenant_id = None THEN ""
    ELSE config.user_config.tenant_id

\* the arguments get_credentials hands to AuthManager::new_with_options
TrManagerArgs(config) ==
    [api_key |-> config.api_key, entra_config |-> Nothing,
     user_config |-> config.user_config, cloud |-> config.cloud,
     default_method |-> config.auth_method, client_ok |-> TRUE]

\* get_credentials up to the AuthManager: the disk cache, if it is consulted
TrStart(config) ==
    /\ run = Idle
    /\ LET consulted == cache_consulted(config)
           entry == IF consulted /\ load_ok(file, home)
                    THEN get_valid_token(load(file, home, now),
                                         cognitive_scope(config.cloud),
                                         configured_tenant(config), now)
                    ELSE Nothing
       IN IF entry # Nothing
          THEN /\ run' = [cmd |-> "test", pc |-> "returned", config |-> config,
                          at |-> now, consulted |-> consulted,
                          result |-> [ok |-> TRUE,
                                      credentials |-> [tag |-> "BearerToken",
                                                       value |-> entry.access_token]]]
               /\ ev' = [op |-> "test", outcome |-> "cached",
                         minutes |-> remaining_minutes(entry, now)]
          ELSE /\ run' = [cmd |-> "test", pc |-> "manager", config |-> config,
                          at |-> now, consulted |-> consulted, result |-> Nothing]
               /\ ev' = [op |-> "test", outcome |-> "manager"]
    /\ UNCHANGED <<now, home, file, tokens, slot, dc, ia, env, mi, am, rq, mode, lg>>

\* let auth_manager = AuthManager::new_with_options(..)?
TrManager ==
    /\ run.cmd = "test" /\ run.pc = "manager"
    /\ AmNew(TrManagerArgs(run.config))

\* let provider = auth_manager.get_provider()?
TrGetProvider ==
    /\ run.cmd = "test" /\ run.pc = "manager"
    /\ AmGetProvider

\* the ? of new_with_options or of get_provider returns the Err
TrFailed ==
    /\ run.cmd = "test" /\ run.pc = "manager"
    /\ \/ am.pc = "failed"
       \/ am.pc = "built" /\ am.got # Nothing /\ ~am.got.ok
    /\ run' = [run EXCEPT !.pc = "returned",
                          !.result = [ok |-> FALSE,
                                      kind |-> IF am.pc = "failed" THEN am.kind
                                               ELSE am.got.kind]]
    /\ ev' = [op |-> "test", outcome |-> "failed"]
    /\ UNCHANGED <<now, home, file, tokens, slot, dc, ia, env, mi, am, rq, mode, lg>>

\* provider.get_credentials() of ApiKeyAuth
TrApiKey ==
    /\ run.cmd = "test" /\ run.pc = "manager"
    /\ am.pc = "built" /\ am.got # Nothing /\ am.got.ok
    /\ am.got.provider.auth = "ApiKeyAuth"
    /\ run' = [run EXCEPT !.pc = "returned",
                          !.result = [ok |-> TRUE,
                                      credentials |-> [tag |-> "ApiKey",
                                                       value |-> am.got.provider.api_key]]]
    /\ ev' = [op |-> "test", outcome |-> "provider"]
    /\ UNCHANGED <<now, home, file, tokens, slot, dc, ia, env, mi, am, rq, mode, lg>>

\* provider.get_credentials() of DeviceCodeAuth: fetch_token requests the
\* device authorization; the polling that follows is NextDevice
TrDevice ==
    /\ run.cmd = "test" /\ run.pc = "manager"
    /\ am.pc = "built" /\ am.got # Nothing /\ am.got.ok
    /\ am.got.provider.auth = "DeviceCodeAuth"
    /\ \/ \E c \in FetchFailures : DcRequestFailed(c)
       \/ \E d \in DeviceDetails : DcStart(run.config.cloud, d)

\* the process of the test run ends
TrExit ==
    /\ run.cmd = "test"
    /\ run.pc = "returned" \/ dc.pc # "idle"
    /\ run' = Idle
    /\ am' = AmNone
    /\ dc' = DcIdle
    /\ ev' = [op |-> "exit"]
    /\ UNCHANGED <<now, home, file, tokens, slot, ia, env, mi, rq, mode, lg>>

\* logins and test runs of one user, one after the other
NextTestRun ==
    \/ Tick
    \/ \E args \in LoginArgs : LoginStart(args)
    \/ LoginAuthFailed
    \/ \E a \in AccessTokens, e \in ExpiresIns : LoginAuthSucceeded(a, e)
    \/ \E c \in TrConfigs : TrStart(c)
    \/ TrManager
    \/ TrGetProvider
    \/ TrFailed
    \/ TrApiKey
    \/ TrDevice
    \/ TrExit

SpecTestRun == Init /\ [][NextTestRun]_vars

\* ------------------------------------------------ claims on the test run

\* the entries of the cache file
Entries(disk) == IF IsDoc(disk) THEN { disk[i] : i \in 1..Len(disk) } ELSE {}

\* the state, the cache file as whether it exists and what it holds
FileView ==
    <<IF IsDoc(file) THEN "document" ELSE file, IF IsDoc(file) THEN file ELSE <<>>,
      now, home, tokens, ev, run, slot, dc, ia, env, mi, am, rq, mode, lg>>

\* the step leaves the cache file as it is
FileKept ==
    IF IsDoc(file) THEN IsDoc(file') /\ file' = file
    ELSE ~IsDoc(file') /\ file' = file

\* C25: an entry enters the cache file only by a successful login with --save
\* and is that login's token; such a login leaves no other entry of its key;
\* an entry leaves the file only by the explicit clear or, at a saved login,
\* by being expired at the load or by having the key of the new entry; a test
\* run and a login without --save leave the file as it is.
C25_EntryLifecycle ==
    [][ /\ ~FileKept =>
              /\ ev'.op = "login"
              /\ ev'.outcome \in {"saved", "cleared"}
        /\ \A e \in Entries(file') \ Entries(file) :
              /\ ev'.op = "login" /\ ev'.outcome = "saved"
              /\ e = ev'.entry
              /\ run.cmd = "login" /\ run.args.save
        /\ (ev'.op = "login" /\ ev'.outcome = "saved") =>
              \A e \in Entries(file') : same_key(e, ev'.entry) => e = ev'.entry
        /\ \A e \in Entries(file) \ Entries(file') :
              \/ ev'.op = "login" /\ ev'.outcome = "cleared"
              \/ /\ ev'.op = "login" /\ ev'.outcome = "saved"
                 /\ \/ now + ENTRY_BUFFER_SECS >= e.expires_at
                    \/ same_key(e, ev'.entry)
        /\ ev'.op = "test" => FileKept
        /\ (ev'.op = "login" /\ ev'.outcome \in {"token", "auth_failed", "cached"}) =>
              FileKept
      ]_FileView

\* a saved login has replaced the entry of its key while the entry of the
\* other key stayed, after a test run used the cache
C25_Witness ==
    /\ ev.op = "login" /\ ev.outcome = "saved"
    /\ IsDoc(file) /\ Len(file) = 2
    /\ file[2] = ev.entry
    /\ now > 0
    /\ ~same_key(file[1], file[2])
    /\ file[1].expires_at < file[2].expires_at

\* the valid entries of the cache file for the test run's scope and tenant
TrHits ==
    { e \in Entries(file) :
        /\ home
        /\ e.scope = cognitive_scope(run.config.cloud)
        /\ e.tenant_id = configured_tenant(run.config)
        /\ run.at + ENTRY_BUFFER_SECS < e.expires_at }

\* C28: a test run consults the disk cache iff no_cache is false and the
\* method is device-code; on a valid entry for (cloud scope, configured
\* tenant) its token is returned as the bearer credential with no AuthManager
\* built and no device-code flow started; otherwise get_credentials goes
\* through the AuthManager and the provider of the configured method.
C28_CacheBeforeProvider ==
    run.cmd = "test" =>
        LET wanted == ~run.config.no_cache /\ run.config.auth_method = "DeviceCode"
        IN /\ run.consulted <=> wanted
           /\ (wanted /\ TrHits # {}) =>
                 /\ run.pc = "returned"
                 /\ run.result.ok
                 /\ run.result.credentials.tag = "BearerToken"
                 /\ \E e \in TrHits : run.result.credentials.value = e.access_token
                 /\ am = AmNone
                 /\ dc = DcIdle
           /\ ~(wanted /\ TrHits # {}) =>
                 /\ run.pc = "returned" =>
                       /\ am # AmNone
                       /\ am.args = TrManagerArgs(run.config)
                       /\ run.result.ok =>
                             /\ run.result.credentials.tag = "ApiKey"
                             /\ run.config.auth_method = "Key"
                 /\ dc.pc # "idle" =>
                       /\ run.config.auth_method = "DeviceCode"
                       /\ am.pc = "built"
                       /\ am.got.provider.auth = "DeviceCodeAuth"

\* a device-code test run found the saved login's token in the cache
C28_Witness ==
    /\ run.cmd = "test" /\ run.pc = "returned"
    /\ run.config.auth_method = "DeviceCode" /\ ~run.config.no_cache
    /\ run.result.ok
    /\ run.result.credentials = [tag |-> "BearerToken", value |-> "new-token"]
    /\ TrHits # {}
    /\ am = AmNone /\ dc = DcIdle

\* --------------------------- auth/mod.rs: Credentials::apply_to_request

\* Credentials: ApiKey(String) or BearerToken(String)
CredentialValues ==
    [ tag : {"ApiKey"}, value : {"key-1", "key-2"} ]
        \cup [ tag : {"BearerToken"}, value : {"token-1", "token-2"} ]

\* the headers a caller has put on the builder; a header is <<name, value>>
\* and a value the sequence of the strings it is formatted from
HeaderLists ==
    { <<>>,
      << <<"Content-Type", <<"application/json">> >> >>,
      << <<"Authorization", <<"Bearer ", "stale-token">> >> >>,
      << <<"Content-Type", <<"application/json">> >>,
         <<"Ocp-Apim-Subscription-Key", <<"stale-key">> >> >>,
      << <<"Content-Type", <<"image/png">> >>,
         <<"Authorization", <<"Bearer ", "stale-token">> >> >> }

\* reqwest::RequestBuilder as the services build it: client.get(url) or
\* client.post(url).header(..).json(body)
RequestBuilders ==
    [ method : {"GET", "POST"}, url : {"https://endpoint/api"},
      headers : HeaderLists, body : {None, "json-body"} ]

\* RequestBuilder::header(name, value): the header is added to the request
header(request, name, value) ==
    [request EXCEPT !.headers = Append(@, <<name, value>>)]

\* an apply_to_request that sends the credential under both header names
apply_to_request_both(self, request) ==
    header(header(request, "Ocp-Apim-Subscription-Key", <<self.value>>),
           "Authorization", <<"Bearer ", self.value>>)

\* Credentials::apply_to_request
apply_to_request(self, request) ==
    IF self.tag = "ApiKey"
    THEN header(request, "Ocp-Apim-Subscription-Key", <<self.value>>)
    ELSE header(request, "Authorization", <<"Bearer ", self.value>>)

\* a service builds its request
RqBuild(request) ==
    /\ rq.pc = "none"
    /\ rq' = [pc |-> "built", request |-> request]
    /\ ev' = [op |-> "request"]
    /\ UNCHANGED <<now, home, file, tokens, run, slot, dc, ia, env, mi, am, mode, lg>>

\* context.credentials.apply_to_request(request)
RqApply(credentials) ==
    /\ rq.pc = "built"
    /\ rq' = [pc |-> "applied", before |-> rq.request, credentials |-> credentials,
              request |-> apply_to_request(credentials, rq.request)]
    /\ ev' = [op |-> "apply_to_request"]
    /\ UNCHANGED <<now, home, file, tokens, run, slot, dc, ia, env, mi, am, mode, lg>>

NextRequest ==
    \/ \E r \in RequestBuilders : RqBuild(r)
    \/ \E c \in CredentialValues : RqApply(c)

SpecRequest == Init /\ [][NextRequest]_vars

\* C20: apply_to_request adds exactly one header to the request and leaves
\* the rest of the request unchanged: Ocp-Apim-Subscription-Key: <key> for
\* ApiKey and Authorization: Bearer <token> for BearerToken, never both and
\* never neither.
C20_ExactlyOneHeader ==
    rq.pc = "applied" =>
        LET old == rq.before
            new == rq.request
            added == new.headers[Len(new.headers)]
        IN /\ Len(new.headers) = Len(old.headers) + 1
           /\ SubSeq(new.headers, 1, Len(old.headers)) = old.headers
           /\ new.method = old.method
           /\ new.url = old.url
           /\ new.body = old.body
           /\ rq.credentials.tag = "ApiKey" =>
                 added = <<"Ocp-Apim-Subscription-Key", <<rq.credentials.value>> >>
           /\ rq.credentials.tag = "BearerToken" =>
                 added = <<"Authorization", <<"Bearer ", rq.credentials.value>> >>

\* a bearer token was applied to a POST that carried a content type and a
\* subscription key
C20_Witness ==
    /\ rq.pc = "applied"
    /\ rq.credentials = [tag |-> "BearerToken", value |-> "token-2"]
    /\ rq.before.method = "POST"
    /\ Len(rq.before.headers) = 2
    /\ rq.before.headers[2][1] = "Ocp-Apim-Subscription-Key"
    /\ Len(rq.request.headers) = 3

\* ------------- main.rs: run_login with --save, two invocations side by side

\* expires_in of the token an invocation obtained
LgExpiresIns == {ENTRY_BUFFER_SECS + 1, 3600}

\* the access token the authority issues to invocation p
LgToken(p) == IF p = 1 THEN "old-token" ELSE "new-token"

\* every invocation of the pair has ended or has not begun
LgQuiet == \A q \in Invocations : lg.procs[q].pc \in {"idle", "done"}

\* auth.authenticate().await? returned Ok(result) in invocation p, started
\* with --save; once both invocations of a pair have ended the next pair
\* begins with the file they left
LgStart(p, tenant, expires_in_secs) ==
    /\ LET started == [pc |-> "load", tenant |-> tenant, access_token |-> LgToken(p),
                       expires_in_secs |-> expires_in_secs,
                       scope |-> cognitive_scope("Global"),
                       cache |-> <<>>, entry |-> Nothing, loaded_at |-> 0,
                       outcome |-> None]
       IN IF LgQuiet /\ \E q \in Invocations : lg.procs[q].pc = "done"
          THEN lg' = [procs |-> [q \in Invocations |-> IF q = p THEN started ELSE LgIdle],
                      base |-> file, last |-> 0]
          ELSE /\ lg.procs[p].pc = "idle"
               /\ lg' = [lg EXCEPT !.procs[p] = started,
                                   !.base = IF LgQuiet THEN file ELSE lg.base]
    /\ ev' = [op |-> "login_save", step |-> "authenticated", p |-> p]
    /\ UNCHANGED <<now, home, file, tokens, run, slot, dc, ia, env, mi, am, rq, mode>>

\* let mut cache = TokenCacheFile::load().unwrap_or_default();
LgLoad(p) ==
    /\ lg.procs[p].pc = "load"
    /\ lg' = [lg EXCEPT !.procs[p].pc = "insert",
                        !.procs[p].cache = IF load_ok(file, home)
                                           THEN load(file, home, now) ELSE <<>>,
                        !.procs[p].loaded_at = now]
    /\ ev' = [op |-> "login_save", step |-> "load", p |-> p]
    /\ UNCHANGED <<now, home, file, tokens, run, slot, dc, ia, env, mi, am, rq, mode>>

\* cache.insert(CachedTokenEntry { .., expires_at: Utc::now() + expires_in, .. })
LgInsert(p) ==
    /\ lg.procs[p].pc = "insert"
    /\ LET me == lg.procs[p]
           entry == [access_token |-> me.access_token,
                     expires_at |-> now + me.expires_in_secs,
                     scope |-> me.scope, tenant_id |-> me.tenant]
       IN lg' = [lg EXCEPT !.procs[p].pc = "write",
                           !.procs[p].entry = entry,
                           !.procs[p].cache = insert(me.cache, entry)]
    /\ ev' = [op |-> "login_save", step |-> "insert", p |-> p]
    /\ UNCHANGED <<now, home, file, tokens, run, slot, dc, ia, env, mi, am, rq, mode>>

\* cache.save()?, up to std::fs::write(&path, &content): Err without a cache
\* directory, else the document replaces the file's content
LgWrite(p, umask) ==
    /\ lg.procs[p].pc = "write"
    /\ IF ~save_ok(home)
       THEN /\ lg' = [lg EXCEPT !.procs[p].pc = "done",
                                !.procs[p].outcome = "save_failed"]
            /\ UNCHANGED <<file, mode>>
       ELSE /\ file' = save(lg.procs[p].cache, file, home)
            /\ mode' = write_mode(mode, file, umask)
            /\ lg' = [lg EXCEPT !.procs[p].pc = "chmod", !.last = p]
    /\ ev' = [op |-> "login_save", step |-> "write", p |-> p]
    /\ UNCHANGED <<now, home, tokens, run, slot, dc, ia, env, mi, am, rq>>

\* save(): std::fs::set_permissions(&path, from_mode(0o600)), then Ok(())
LgSetPermissions(p) ==
    /\ lg.procs[p].pc = "chmod"
    /\ mode' = IF file = NoFile THEN mode ELSE OwnerOnly
    /\ lg' = [lg EXCEPT !.procs[p].pc = "done", !.procs[p].outcome = "saved"]
    /\ ev' = [op |-> "login_save", step |-> "set_permissions", p |-> p]
    /\ UNCHANGED <<now, home, file, tokens, run, slot, dc, ia, env, mi, am, rq>>

\* the clock moves while the invocations run
LgTick ==
    /\ now < MaxNow
    /\ now' = now + 1
    /\ ev' = [op |-> "tick"]
    /\ UNCHANGED <<home, file, tokens, run, slot, dc, ia, env, mi, am, rq, mode, lg>>

NextLogins ==
    \/ LgTick
    \/ \E p \in Invocations, t \in Tenants, e \in LgExpiresIns : LgStart(p, t, e)
    \/ \E p \in Invocations : LgLoad(p)
    \/ \E p \in Invocations : LgInsert(p)
    \/ \E p \in Invocations, u \in Umasks : LgWrite(p, u)
    \/ \E p \in Invocations : LgSetPermissions(p)

SpecLogins == Init /\ [][NextLogins]_vars

\* ----------------------------------- claims on the cache file of the logins

\* C22: in every reachable state in which the cache file exists and holds
\* token entries its mode is owner read/write only (0600), the states between
\* the write step and the permission step of save() included.
C22_FileAlwaysOwnerOnly ==
    (IsDoc(file) /\ file # <<>>) => mode = OwnerOnly

\* the document of the invocation whose write came last
LastWriter == lg.procs[lg.last]

\* C23: under any interleaving of two `login --save` invocations the cache
\* file equals the whole document written by whichever save ran last, holds
\* that invocation's new entry and at most one entry per (scope, tenant) key;
\* when both used the same key, the file is what the last writer alone would
\* have left.
C23_LastWriterWins ==
    lg.last # 0 =>
        /\ file = LastWriter.cache
        /\ \E i \in 1..Len(file) : file[i] = LastWriter.entry
        /\ UniqueKeys(file)
        /\ ((\A q \in Invocations : lg.procs[q].pc = "done")
              /\ lg.procs[1].tenant = lg.procs[2].tenant) =>
              file = insert(IF load_ok(lg.base, home)
                            THEN load(lg.base, home, LastWriter.loaded_at) ELSE <<>>,
                            LastWriter.entry)

\* two invocations for the same tenant both loaded the file before either
\* wrote it, and both have saved
C23_Witness ==
    /\ \A q \in Invocations : lg.procs[q].pc = "done" /\ lg.procs[q].outcome = "saved"
    /\ lg.procs[1].tenant = lg.procs[2].tenant
    /\ lg.procs[1].access_token # lg.procs[2].access_token
    /\ lg.last = 1
    /\ IsDoc(lg.base) /\ Len(lg.base) = 2
    /\ Len(file) = 2

\* ------------------------------------------------ claims on the two caches

\* an entry of key (scope, tenant_id) is stored in the cache file and has
\* more than 60 seconds left
StoredValid(scope, tenant_id) ==
    /\ home
    /\ IsDoc(file)
    /\ \E i \in 1..Len(file) :
          /\ file[i].scope = scope
          /\ file[i].tenant_id = tenant_id
          /\ now + 60 < file[i].expires_at

\* C1: in both layers a lookup returns a token if and only if one is stored
\* for the key and now + 60 s < expires_at at the moment of the lookup: the
\* login's disk lookup answers "cached" with the token of a stored entry of
\* that key with more than 60 s left and goes on to authenticate only when
\* there is none; TokenCache::get answers the slot's token only when it has
\* more than 60 s left and goes on to fetch only when the slot is empty or
\* has 60 s or less left.
C1_LookupIffValid ==
    /\ (ev.op = "login" /\ ev.outcome = "cached") =>
          /\ StoredValid(ev.scope, ev.tenant_id)
          /\ \E i \in 1..Len(file) :
                /\ file[i].scope = ev.scope
                /\ file[i].tenant_id = ev.tenant_id
                /\ file[i].access_token = ev.token
                /\ now + 60 < file[i].expires_at
    /\ (ev.op = "login" /\ ev.outcome = "authenticating") =>
          ~StoredValid(ev.scope, ev.tenant_id)
    /\ (ev.op = "get_credentials" /\ ev.outcome = "cached") =>
          /\ slot # Nothing
          /\ slot.token = ev.token
          /\ now + 60 < slot.expires_at
    /\ (ev.op = "get_credentials" /\ ev.outcome = "fetching") =>
          (slot = Nothing \/ ~(now + 60 < slot.expires_at))

\* a login found an entry of its key with exactly 60 s left and did not use it
C1_Witness ==
    /\ ev.op = "login" /\ ev.outcome = "authenticating"
    /\ home /\ IsDoc(file)
    /\ \E i \in 1..Len(file) :
          /\ file[i].scope = ev.scope
          /\ file[i].tenant_id = ev.tenant_id
          /\ file[i].expires_at = now + 60

\* C5: a failed fetch changes no cache: when DeviceCodeAuth::authenticate
\* fails in a login the cache file is left as it was (neither rewritten nor
\* deleted), and when the request of EntraTokenAuth / CognitiveTokenAuth
\* fails the in-memory slot is left as it was.
C5_FailedFetchKeepsCaches ==
    [][ /\ (ev'.op = "login" /\ ev'.outcome = "auth_failed" /\ run.cmd = "login")
            => (file' = file /\ slot' = slot)
        /\ (ev'.op = "get_credentials" /\ ev'.outcome = "failed")
            => (slot' = slot /\ file' = file) ]_vars

\* a login's authentication failed while the cache file held a valid entry
C5_Witness ==
    /\ ev.op = "login" /\ ev.outcome = "auth_failed"
    /\ \E c \in Clouds : StoredValid(cognitive_scope(c), "tenant1")

\* C26: get_credentials of EntraTokenAuth and exchange_token of
\* CognitiveTokenAuth make no request while the slot holds a valid token and
\* return a copy of it; with an empty or not valid slot they make one request
\* and, when it succeeds, replace the slot by the new token expiring
\* expires_in after now, and return the new token.
C26_FetchOnlyWhenInvalid ==
    [][ (ev'.op = "get_credentials" /\ run.cmd \in {"entra", "cognitive"}) =>
          LET valid == IF slot = Nothing THEN FALSE
                       ELSE now + TOKEN_EXPIRY_BUFFER_SECS < slot.expires_at
          IN /\ (run.pc = "ready" /\ valid) =>
                   /\ ev'.outcome = "cached"
                   /\ ev'.token = slot.token
                   /\ slot' = slot
                   /\ run'.pc = "ready"
             /\ (run.pc = "ready" /\ ~valid) =>
                   /\ ev'.outcome = "fetching"
                   /\ run'.pc = "fetching"
                   /\ slot' = slot
             /\ run.pc = "fetching" =>
                   /\ ev'.outcome \in {"fetched", "failed"}
                   /\ run'.pc = "ready"
                   /\ ev'.outcome = "fetched" =>
                         /\ slot' = [token |-> ev'.token,
                                     expires_at |-> now + ev'.expires_in]
                         /\ run.cmd = "cognitive" =>
                               ev'.expires_in = COGNITIVE_TOKEN_LIFETIME_SECS
      ]_vars

\* a second call found the token of an earlier fetch still valid
C26_Witness ==
    /\ ev.op = "get_credentials" /\ ev.outcome = "cached"
    /\ run.cmd = "entra"
    /\ slot # Nothing
    /\ now > 0
    /\ ev.token = slot.token

\* ------------------------------------------ claims on the kinds of errors

\* an error of the network kind, which exits with the network-failure status
NetworkKind(kind) ==
    kind \in {"Network", "Http", "Timeout"} /\ exit_code(kind) = "NetworkFailure"

\* C21: a transport failure or timeout on an outbound call of a credential
\* flow (device-authorization request, device-code token poll, interactive
\* code exchange, client-credentials token request) surfaces as an error of
\* the network kind, which maps to the network-failure exit status and not
\* to the authentication-failure one.
C21_TransportFailureIsNetworkError ==
    /\ (dc.pc = "failed" /\ dc.cause = "transport_error") => NetworkKind(dc.kind)
    /\ (dc.pc = "failed" /\ dc.responses # <<>>
            /\ dc.responses[Len(dc.responses)] = "request_error") => NetworkKind(dc.kind)
    /\ (ia.pc = "failed" /\ ia.posts = 1 /\ ia.error = "transport_error")
            => NetworkKind(ia.kind)
    /\ (ev.op = "get_credentials" /\ ev.outcome = "failed"
            /\ ev.cause = "transport_error") => NetworkKind(ev.kind)

\* ------------------------------------ claims on the wait of the listener

C30_SuccessPageOnlyAfterCsrf ==
    (ia.pc # "idle" /\ ia.http = "200") =>
        /\ ia.request # Nothing
        /\ ia.request.params.state = ia.csrf

\* ------------- auth/mod.rs: one EntraTokenAuth shared by concurrent callers

\* the tasks that call get_credentials on the provider, and how many calls
\* each of them makes
Callers == {1, 2}
MaxCalls == 2

\* the access token the k-th request of caller c is answered with
CcToken(c, k) == "token-" \o ToString(c) \o "-" \o ToString(k)

CcIdle == [pc |-> "idle", calls |-> 0, token |-> None, expires_in |-> 0,
           set_at |-> 0, cached |-> Nothing, got |-> None]

\* EntraTokenAuth::new: an empty slot behind the lock, no call under way
CcNew ==
    /\ run = Idle
    /\ run' = [cmd |-> "shared", callers |-> [c \in Callers |-> CcIdle],
               last |-> Nothing, overlap |-> FALSE]
    /\ slot' = Nothing
    /\ ev' = [op |-> "new", kind |-> "shared"]
    /\ UNCHANGED <<now, home, file, tokens, dc, ia, env, mi, am, rq, mode, lg>>

\* get_credentials: token_cache.get() under the read lock, which is released
\* when get returns; on a miss fetch_token sends its request
CcGet(c) ==
    /\ run.cmd = "shared"
    /\ run.callers[c].pc = "idle"
    /\ run.callers[c].calls < MaxCalls
    /\ LET token == TokenCache_get(slot, TOKEN_EXPIRY_BUFFER_SECS, now)
           me == run.callers[c]
       IN IF token # None
          THEN /\ run' = [run EXCEPT !.callers[c].calls = me.calls + 1,
                                     !.callers[c].got = token]
               /\ ev' = [op |-> "get_credentials", outcome |-> "cached", by |-> c]
          ELSE /\ run' = [run EXCEPT !.callers[c].pc = "fetching",
                                     !.callers[c].calls = me.calls + 1,
                                     !.callers[c].token = CcToken(c, me.calls + 1),
                                     !.callers[c].got = None,
                                     !.overlap = run.overlap \/
                                        \E o \in Callers \ {c} :
                                            run.callers[o].pc = "fetching"]
               /\ ev' = [op |-> "get_credentials", outcome |-> "fetching", by |-> c]
    /\ UNCHANGED <<now, home, file, tokens, slot, dc, ia, env, mi, am, rq, mode, lg>>

\* fetch_token failed: get_credentials returns the error
CcFetchFailed(c, cause) ==
    /\ run.cmd = "shared"
    /\ run.callers[c].pc = "fetching"
    /\ run' = [run EXCEPT !.callers[c].pc = "idle", !.callers[c].token = None]
    /\ ev' = [op |-> "get_credentials", outcome |-> "failed", by |-> c,
              cause |-> cause, kind |-> fetch_token_error(cause)]
    /\ UNCHANGED <<now, home, file, tokens, slot, dc, ia, env, mi, am, rq, mode, lg>>

\* fetch_token returned (token, expires_in); set() builds the CachedToken
\* from Instant::now() and waits for the write lock
CcFetched(c, expires_in) ==
    /\ run.cmd = "shared"
    /\ run.callers[c].pc = "fetching"
    /\ run' = [run EXCEPT !.callers[c].pc = "write",
                          !.callers[c].expires_in = expires_in,
                          !.callers[c].set_at = now,
                          !.callers[c].cached =
                              TokenCache_set(run.callers[c].token, expires_in, now)]
    /\ ev' = [op |-> "get_credentials", outcome |-> "fetched", by |-> c]
    /\ UNCHANGED <<now, home, file, tokens, slot, dc, ia, env, mi, am, rq, mode, lg>>

\* set() has the write lock: *cache = Some(cached); get_credentials returns
CcSetWrite(c) ==
    /\ run.cmd = "shared"
    /\ run.callers[c].pc = "write"
    /\ slot' = run.callers[c].cached
    /\ run' = [run EXCEPT !.callers[c].pc = "idle",
                          !.callers[c].got = run.callers[c].token,
                          !.last = [by |-> c, token |-> run.callers[c].token,
                                    expires_in |-> run.callers[c].expires_in,
                                    set_at |-> run.callers[c].set_at]]
    /\ ev' = [op |-> "get_credentials", outcome |-> "set", by |-> c]
    /\ UNCHANGED <<now, home, file, tokens, dc, ia, env, mi, am, rq, mode, lg>>

NextShared ==
    \/ Tick
    \/ CcNew
    \/ \E c \in Callers : CcGet(c)
    \/ \E c \in Callers, f \in FetchFailures : CcFetchFailed(c, f)
    \/ \E c \in Callers, e \in ExpiresIns : CcFetched(c, e)
    \/ \E c \in Callers : CcSetWrite(c)

SpecShared == Init /\ [][NextShared]_vars

\* C29: under any interleaving of the callers the slot is empty or holds the
\* token of one completed fetch with the expiry of that same fetch, which is
\* the fetch whose set() ran last; a caller whose request is in flight or
\* whose set() waits for the lock keeps the token of its own request.
C29_SlotIsOneFetch ==
    run.cmd = "shared" =>
        /\ (slot = Nothing) <=> (run.last = Nothing)
        /\ run.last # Nothing =>
              /\ slot.token = run.last.token
              /\ slot.expires_at = run.last.set_at + run.last.expires_in
              /\ run.last.token \in { CcToken(run.last.by, k) : k \in 1..MaxCalls }
        /\ \A c \in Callers :
              run.callers[c].pc \in {"fetching", "write"} =>
                  run.callers[c].token = CcToken(c, run.callers[c].calls)

\* both callers missed and had their requests in flight together; the slot
\* holds what caller 1 set after caller 2, with another expiry
C29_Witness ==
    /\ run.cmd = "shared"
    /\ run.overlap
    /\ run.last # Nothing
    /\ run.last.by = 1
    /\ run.callers[2].got = CcToken(2, 1)
    /\ run.callers[2].cached # Nothing
    /\ run.callers[2].cached.expires_at # slot.expires_at
    /\ slot.token = CcToken(1, 1)
    /\ \A c \in Callers : run.callers[c].pc = "idle" /\ run.callers[c].calls = 1

====
